---- MODULE Spec2Model ----
(***************************************************************************)
(* Verification model of perfetto's protovm::SlabAllocator                 *)
(* (src/protovm/slab_allocator.h) and of the intrusive list it is built on *)
(* (src/base/intrusive_list.cc).                                           *)
(*                                                                         *)
(* Memory is modelled at the granularity the code works with: byte         *)
(* addresses, 4KB blocks (scaled down, see k4KiloBytes) and OS pages.  A    *)
(* slab object is identified by its base address; an intrusive list node   *)
(* is identified by the slab that embeds it (NodeOffset is a fixed         *)
(* offset).                                                                *)
(***************************************************************************)
EXTENDS Integers, FiniteSets, Sequences, TLC

\* ------------------------------------------------------------------------
\* Bounds of the model
\* ------------------------------------------------------------------------

\* Number of machine words in one "4KB" block.  The real block holds
\* 4096 / 8 = 512 words; the model scales the block down so that a slab
\* holds a handful of slots.
BlockWords == 6

\* Number of 4KB blocks in one OS page (base::GetSysPageSize() / 4096).
PageBlocks == 1

\* Size of the modelled address space, in 4KB blocks (block 0 is never
\* handed out: mmap does not return the null page).
AddrBlocks == 6

\* The OS refuses a further mapping (MAP_FAILED) once this many slabs are
\* mapped.
MaxSlabs == 3

\* The largest field number of a registry that is explored.
MaxField == 3

\* The most registers a BytecodeBuilder hands out, and the most opcodes it
\* emits.
MaxRegisters == 6

MaxBytecode == 3

\* The largest number of entries of tagged_dataframes.
MaxDataframes == 3

\* The largest savepoint_version of the storage table's vtab.
MaxVersion == 1

\* The most sequences the TraceProvenance packets of a trace announce, the
\* most VMs its ProtoVms packets carry, and the number of recorded errors
\* after which no further packet is fed.
MaxSequences == 2

MaxVms == 2

MaxLogs == 1

\* ------------------------------------------------------------------------
\* Program constants
\* ------------------------------------------------------------------------

\* sizeof(void*) == sizeof(size_t) on the 64-bit targets.
WordBytes == 8

\* size_t arithmetic wraps.  The real modulus is 2^64; the model wraps at
\* 2^16, far above every count it reaches, because TLC's integers are 32
\* bits wide.
SizeMax == 65536

Null == 0

\* std::numeric_limits<uint32_t>::max().  The real value is 2^32 - 1; the
\* model uses 2^16 - 1, the largest size a caller can ask for.
Uint32Max == 65535

\* std::nullopt as a slot index; the slots are numbered from 1.
Nullopt == 0

\* A slot that holds a live element holds bytes that are the caller's, not
\* a free-list link.
ElementBytes == -1

k4KiloBytes == WordBytes * BlockWords

GetSysPageSize == PageBlocks * k4KiloBytes

\* The instantiations of SlabAllocator<ElementSize, ElementAlign,
\* Blocks4KBPerSlab> that are explored.
Configs ==
  { [ElementSize |-> 8,  ElementAlign |-> 8, Blocks4KBPerSlab |-> 1],
    [ElementSize |-> 16, ElementAlign |-> 8, Blocks4KBPerSlab |-> 1] }

\* ------------------------------------------------------------------------
\* Layout of Slab<ElementSize, ElementAlign, SlabCapacity>
\* ------------------------------------------------------------------------

Max(a, b) == IF a >= b THEN a ELSE b

RoundUp(n, m) == ((n + m - 1) \div m) * m

RoundUpToSysPageSize(req_size) == RoundUp(req_size, GetSysPageSize)

\* union Slot { Slot* next; alignas(ElementAlign) unsigned char element[ElementSize]; }
AlignofSlot(c) == Max(WordBytes, c.ElementAlign)

\* The union without its padding up to the alignment.
SizeofSlot_Unpadded(c) == Max(WordBytes, c.ElementSize)

SizeofSlot(c) == RoundUp(Max(WordBytes, c.ElementSize), AlignofSlot(c))

\* next_free_slot_, size_, intrusive_list_node_ {prev, next}, then slots_.
OffsetofSlots(c) == RoundUp(4 * WordBytes, AlignofSlot(c))

SizeofSlab(c, capacity) ==
  RoundUp(OffsetofSlots(c) + capacity * SizeofSlot(c), AlignofSlot(c))

SlabOverhead(c) == SizeofSlab(c, 1) - (SizeofSlab(c, 2) - SizeofSlab(c, 1))

\* A size_t difference: it wraps when the overhead exceeds the budget.
MemoryAvailableForElementsInSlab(c) ==
  (c.Blocks4KBPerSlab * k4KiloBytes - SlabOverhead(c)) % SizeMax

\* The divisor is sizeof(ElementSize), the size of a size_t.
SlabCapacity(c) == MemoryAvailableForElementsInSlab(c) \div WordBytes

SlotAddr(c, slab, i) == slab + OffsetofSlots(c) + i * SizeofSlot(c)

SlotAddrs(c, slab) == { SlotAddr(c, slab, i) : i \in 0 .. (SlabCapacity(c) - 1) }

GetBeginAddress(slab) == slab

GetEndAddress(c, slab) == slab + SizeofSlab(c, SlabCapacity(c))

\* The 4KB-aligned addresses p, p + 4KB, ... below `end`, starting at `begin`.
BlockRange(begin, end) ==
  { begin + k * k4KiloBytes : k \in 0 .. ((end - begin + k4KiloBytes - 1) \div k4KiloBytes) - 1 }

\* ptr & ~(k4KiloBytes - 1)
AlignDown4KB(ptr) == ptr - (ptr % k4KiloBytes)


\* ------------------------------------------------------------------------
\* State
\* ------------------------------------------------------------------------

VARIABLES
  cfg,                         \* the template arguments of this instantiation
  heap,                        \* the constructed Slab objects, by base address
  mapped,                      \* the 4KB blocks currently mapped by mmap
  block_4KB_aligned_to_slab_,  \* FlatHashMap<uintptr_t, SlabType*>
  slabs_non_full_,             \* IntrusiveList: [front_, size_]
  slabs_full_,                 \* IntrusiveList: [front_, size_]
  live,                        \* pointers the caller holds: pointer -> issuing slab
  status,                      \* "running", "halted" (a PERFETTO_CHECK or
                               \* PERFETTO_DCHECK fired), "destroyed",
                               \* "misused" (a contract-breaking Free went
                               \* through) or "corrupted" (it wrote through
                               \* a pointer that is no slot)
  last,                        \* the last call made and what it did
  reg,                         \* gen_proto_extensions::Registry handed to
                               \* ValidateRegistry
  register_count_,             \* BytecodeBuilder::register_count_
  scratch_slots_,              \* BytecodeBuilder::scratch_slots_
  bytecode_,                   \* BytecodeBuilder::bytecode_
  cache_,                      \* DataframeRegisterCache::cache_
  tagged_dataframes,           \* DataframeStorageModule::Context
  savepoint_version,           \* DataframeStorageModule::Vtab
  idx,                         \* DataframeStorageModule::Cursor
  producer_id_to_sequence_ids_,  \* ProtoVmIncrementalTracing
  sequence_id_to_vms_,         \* ProtoVmIncrementalTracing
  vms_,                        \* ProtoVmIncrementalTracing: the VMs' states
  import_logs                  \* the errors recorded with import_logs_tracker

vars == << cfg, heap, mapped, block_4KB_aligned_to_slab_,
           slabs_non_full_, slabs_full_, live, status, last,
           reg, register_count_, scratch_slots_, bytecode_, cache_,
           tagged_dataframes, savepoint_version, idx,
           producer_id_to_sequence_ids_, sequence_id_to_vms_, vms_,
           import_logs >>

\* The state of the slab allocator and of the lists.
allocVars == << cfg, heap, mapped, block_4KB_aligned_to_slab_,
                slabs_non_full_, slabs_full_, live >>

\* The state of the registry validator, the bytecode builder and the
\* register cache.
toolVars == << reg, register_count_, scratch_slots_, bytecode_, cache_ >>

\* The state of the dataframe storage table and of the incremental-tracing
\* importer.
engineVars == << tagged_dataframes, savepoint_version, idx,
                producer_id_to_sequence_ids_, sequence_id_to_vms_, vms_,
                import_logs >>

\* A default-constructed Registry, BytecodeBuilder and register cache; an
\* empty storage table with a cursor on it; an importer that has seen no
\* packet.
ToolsInit ==
  /\ reg = [scope |-> "", ranges |-> << >>, allocations |-> << >>]
  /\ register_count_ = 0
  /\ scratch_slots_ = << >>
  /\ bytecode_ = << >>
  /\ cache_ = << >>
  /\ tagged_dataframes = << >>
  /\ savepoint_version = 0
  /\ idx = 0
  /\ producer_id_to_sequence_ids_ = << >>
  /\ sequence_id_to_vms_ = << >>
  /\ vms_ = << >>
  /\ import_logs = [protovm_abort |-> 0, protovm_registration_error |-> 0]

\* The allocator object together with the memory it manages.
Cur ==
  [ heap |-> heap, mapped |-> mapped, index |-> block_4KB_aligned_to_slab_,
    non_full |-> slabs_non_full_, full |-> slabs_full_ ]

Becomes(a) ==
  /\ heap' = a.heap
  /\ mapped' = a.mapped
  /\ block_4KB_aligned_to_slab_' = a.index
  /\ slabs_non_full_' = a.non_full
  /\ slabs_full_' = a.full
  /\ UNCHANGED << toolVars, engineVars >>

\* ------------------------------------------------------------------------
\* base::internal::intrusive_list::Base
\* A list operation acts on the list header and on the nodes embedded in
\* the slabs; it yields both.
\* ------------------------------------------------------------------------

EmptyList == [front_ |-> Null, size_ |-> 0]

\* PushFront() that does not set the old front's back reference.
PushFront_NoBackLink(list, h, node) ==
  [ list |-> [front_ |-> node, size_ |-> (list.size_ + 1) % SizeMax],
    heap |-> [h EXCEPT ![node].prev = Null, ![node].next = list.front_] ]

PushFront(list, h, node) ==
  LET h1 == [h EXCEPT ![node].prev = Null, ![node].next = list.front_]
      h2 == IF list.front_ # Null
              THEN [h1 EXCEPT ![list.front_].prev = node]
              ELSE h1
  IN  [ list |-> [front_ |-> node, size_ |-> (list.size_ + 1) % SizeMax],
        heap |-> h2 ]

\* PopFront() that leaves front_ where it is.
PopFront_NoAdvance(list, h) ==
  [ list |-> [front_ |-> list.front_, size_ |-> (list.size_ - 1) % SizeMax],
    heap |-> h ]

PopFront(list, h) ==
  LET front == h[list.front_].next
      h1 == IF front # Null THEN [h EXCEPT ![front].prev = Null] ELSE h
  IN  [ list |-> [front_ |-> front, size_ |-> (list.size_ - 1) % SizeMax],
        heap |-> h1 ]

\* Erase() that does not advance front_ when the node is the front.
Erase_NoFrontAdvance(list, h, node) ==
  LET prev == h[node].prev
      next == h[node].next
      h1 == IF prev # Null THEN [h EXCEPT ![prev].next = next] ELSE h
      h2 == IF next # Null THEN [h1 EXCEPT ![next].prev = prev] ELSE h1
  IN  [ list |-> [front_ |-> list.front_, size_ |-> (list.size_ - 1) % SizeMax],
        heap |-> h2 ]

Erase(list, h, node) ==
  LET prev == h[node].prev
      next == h[node].next
      front == IF node = list.front_ THEN next ELSE list.front_
      h1 == IF prev # Null THEN [h EXCEPT ![prev].next = next] ELSE h
      h2 == IF next # Null THEN [h1 EXCEPT ![next].prev = prev] ELSE h1
  IN  [ list |-> [front_ |-> front, size_ |-> (list.size_ - 1) % SizeMax],
        heap |-> h2 ]

Size(list) == list.size_

Empty(list) == list.size_ = 0

Front(list) == list.front_

\* The nodes reachable from front_ through next, front first (at most
\* `fuel` of them, so that the walk ends on a corrupted chain too).
RECURSIVE Chain(_, _, _)
Chain(h, node, fuel) ==
  IF node = Null \/ fuel = 0 \/ node \notin DOMAIN h
    THEN << >>
    ELSE << node >> \o Chain(h, h[node].next, fuel - 1)

ListSeq(list, h) == Chain(h, list.front_, Cardinality(DOMAIN h) + 1)

NonFullSeq == ListSeq(slabs_non_full_, heap)

FullSeq == ListSeq(slabs_full_, heap)

\* ------------------------------------------------------------------------
\* Slab
\* ------------------------------------------------------------------------

\* Slab::Slab() without the loop: no slot is linked to the next one.
SlabCtor_Unlinked(c, slab) ==
  [ next_free_slot_ |-> SlotAddr(c, slab, 0),
    size_ |-> 0,
    prev |-> Null,
    next |-> Null,
    slots_ |-> [ s \in SlotAddrs(c, slab) |-> Null ] ]

\* Slab::Slab() that links the slots from the last one down to the first.
SlabCtor_Reversed(c, slab) ==
  [ next_free_slot_ |-> SlotAddr(c, slab, SlabCapacity(c) - 1),
    size_ |-> 0,
    prev |-> Null,
    next |-> Null,
    slots_ |-> [ s \in SlotAddrs(c, slab) |->
                   IF s = SlotAddr(c, slab, 0)
                     THEN Null
                     ELSE s - SizeofSlot(c) ] ]

\* Slab::Slab(): every slot linked to the next one, the last one to null.
SlabCtor(c, slab) ==
  [ next_free_slot_ |-> SlotAddr(c, slab, 0),
    size_ |-> 0,
    prev |-> Null,
    next |-> Null,
    slots_ |-> [ s \in SlotAddrs(c, slab) |->
                   IF s = SlotAddr(c, slab, SlabCapacity(c) - 1)
                     THEN Null
                     ELSE s + SizeofSlot(c) ] ]

\* Slab::Allocate() that hands out the head of the free list and leaves it
\* the head.
SlabAllocate_NoPop(s) ==
  [ slab |-> [s EXCEPT !.size_ = (s.size_ + 1) % SizeMax,
                       !.slots_[s.next_free_slot_] = ElementBytes],
    slot |-> s.next_free_slot_ ]

\* Slab::Allocate(): pops the head of the free list.
SlabAllocate(s) ==
  [ slab |-> [s EXCEPT !.next_free_slot_ = s.slots_[s.next_free_slot_],
                       !.size_ = (s.size_ + 1) % SizeMax,
                       !.slots_[s.next_free_slot_] = ElementBytes],
    slot |-> s.next_free_slot_ ]

\* Slab::Free(p) that makes the slot the head without linking it to the
\* old head.
SlabFree_NoLink(s, p) ==
  [s EXCEPT !.next_free_slot_ = p,
            !.size_ = (s.size_ - 1) % SizeMax]

\* Slab::Free(p) that links the slot in behind the head of the free list.
SlabFree_BehindHead(s, p) ==
  IF s.next_free_slot_ = Null
    THEN [s EXCEPT !.slots_[p] = Null,
                   !.next_free_slot_ = p,
                   !.size_ = (s.size_ - 1) % SizeMax]
    ELSE [s EXCEPT !.slots_[p] = s.slots_[s.next_free_slot_],
                   !.slots_[s.next_free_slot_] = p,
                   !.size_ = (s.size_ - 1) % SizeMax]

\* Slab::Free(p) without --size_.
SlabFree_NoCount(s, p) ==
  [s EXCEPT !.slots_[p] = s.next_free_slot_,
            !.next_free_slot_ = p]

\* Slab::Free(p), for p the address of one of the slab's slots.
SlabFree(s, p) ==
  [s EXCEPT !.slots_[p] = s.next_free_slot_,
            !.next_free_slot_ = p,
            !.size_ = (s.size_ - 1) % SizeMax]

\* The range check of Slab::Free: &slots_[0] <= slot <= &slots_[SlabCapacity].
SlabFreeDcheck(c, slab, p) ==
  /\ p >= SlotAddr(c, slab, 0)
  /\ p <= SlotAddr(c, slab, SlabCapacity(c))

\* IsFull() that compares with one more than the capacity.
IsFull_OffByOne(c, s) == s.size_ = SlabCapacity(c) + 1

IsFull(c, s) == s.size_ = SlabCapacity(c)

\* IsEmpty() that is already true with one element left.
IsEmpty_OffByOne(s) == s.size_ <= 1

IsEmpty(s) == s.size_ = 0

\* The slots on the free list of a slab, head first.
RECURSIVE FreeChain(_, _, _)
FreeChain(s, slot, fuel) ==
  IF slot = Null \/ fuel = 0 \/ slot \notin DOMAIN s.slots_
    THEN << >>
    ELSE << slot >> \o FreeChain(s, s.slots_[slot], fuel - 1)

FreeList(s) == FreeChain(s, s.next_free_slot_, Cardinality(DOMAIN s.slots_) + 1)

\* ------------------------------------------------------------------------
\* The OS: mmap / munmap of anonymous private memory
\* ------------------------------------------------------------------------

AddrEnd == (AddrBlocks + 1) * k4KiloBytes

\* The page-aligned regions of `len` bytes that mmap can return.
MmapRegions(m, len) ==
  { p \in { n * GetSysPageSize : n \in 1 .. AddrBlocks } :
      /\ p + len <= AddrEnd
      /\ BlockRange(p, p + len) \cap m = {} }

MapFailed == [failed |-> TRUE, ptr |-> Null]

\* The length Slab::New passes to mmap.
NewLength(c) == RoundUpToSysPageSize(SizeofSlab(c, SlabCapacity(c)))

\* What the mmap call of Slab::New may answer in state a: MAP_FAILED, or
\* a free region.  The code looks at nothing of the address but its
\* alignment, so the kernel is taken to hand out the lowest free region.
MmapResults(c, a) ==
  LET regions == MmapRegions(a.mapped, NewLength(c))
  IN  {MapFailed} \cup
      IF Cardinality(DOMAIN a.heap) < MaxSlabs
        THEN { [failed |-> FALSE, ptr |-> p] :
                 p \in { q \in regions : \A q2 \in regions : q <= q2 } }
        ELSE {}

Munmap(m, addr, len) == m \ BlockRange(addr, addr + len)

\* Adds slab -> value to a function.
Put(f, k, v) == [ x \in DOMAIN f \cup {k} |-> IF x = k THEN v ELSE f[x] ]

Drop(f, ks) == [ x \in DOMAIN f \ ks |-> f[x] ]

\* Slab::New(), given the answer of mmap: maps the rounded-up footprint of
\* the slab and constructs the slab at its start.
SlabNew(c, a, os) ==
  IF os.failed
    THEN [a |-> a, slab |-> Null]
    ELSE [ a |-> [a EXCEPT
                    !.mapped = @ \cup BlockRange(os.ptr, os.ptr + NewLength(c)),
                    !.heap = Put(@, os.ptr, SlabCtor(c, os.ptr))],
           slab |-> os.ptr ]

\* The length Slab::Delete passes to munmap.
DeleteLength(c) == RoundUpToSysPageSize(SlabCapacity(c) * SizeofSlot(c))

\* Slab::Delete(slab): runs the destructor and unmaps.
SlabDelete(c, a, slab) ==
  [a EXCEPT !.heap = Drop(@, {slab}),
            !.mapped = Munmap(@, slab, DeleteLength(c))]

\* ------------------------------------------------------------------------
\* SlabAllocator
\* ------------------------------------------------------------------------

\* InsertHashMapEntries() that registers the first block of the slab only.
InsertHashMapEntries_FirstBlockOnly(c, a, slab) ==
  [a EXCEPT !.index = [ p \in DOMAIN @ \cup {GetBeginAddress(slab)} |->
                          IF p \in DOMAIN @ THEN @[p] ELSE slab ]]

InsertHashMapEntries(c, a, slab) ==
  LET blocks == BlockRange(GetBeginAddress(slab), GetEndAddress(c, slab))
  IN  [a EXCEPT !.index = [ p \in DOMAIN @ \cup blocks |->
                              IF p \in DOMAIN @ THEN @[p] ELSE slab ]]

EraseHashMapEntries(c, a, slab) ==
  [a EXCEPT !.index =
     Drop(@, BlockRange(GetBeginAddress(slab), GetEndAddress(c, slab)))]

\* The slab the index holds for ptr, or Null when the lookup misses (the
\* caller's PERFETTO_CHECK then fires).
FindSlabInHashMap(a, ptr) ==
  IF AlignDown4KB(ptr) \in DOMAIN a.index
    THEN a.index[AlignDown4KB(ptr)]
    ELSE Null

NonFullPushFront(a, slab) ==
  LET r == PushFront(a.non_full, a.heap, slab)
  IN  [a EXCEPT !.non_full = r.list, !.heap = r.heap]

NonFullErase(a, slab) ==
  LET r == Erase(a.non_full, a.heap, slab)
  IN  [a EXCEPT !.non_full = r.list, !.heap = r.heap]

\* Allocate(), line 189, left out: the slab that filled up is put in no list.
FullPushFront_Dropped(a, slab) == a

FullPushFront(a, slab) ==
  LET r == PushFront(a.full, a.heap, slab)
  IN  [a EXCEPT !.full = r.list, !.heap = r.heap]

FullErase(a, slab) ==
  LET r == Erase(a.full, a.heap, slab)
  IN  [a EXCEPT !.full = r.list, !.heap = r.heap]

\* Allocate(), lines 181-192, without the move to the full list.
AllocateFromFront_NoMove(c, a) ==
  LET slab == Front(a.non_full)
      r == SlabAllocate(a.heap[slab])
  IN  IF a.heap[slab].next_free_slot_ = Null
        THEN [a |-> a, ret |-> Null, slab |-> slab, outcome |-> "halted"]
        ELSE [a |-> [a EXCEPT !.heap[slab] = r.slab], ret |-> r.slot,
              slab |-> slab, outcome |-> "ok"]

\* Allocate(), lines 181-192: takes a slot of the front non-full slab and
\* moves the slab to the full list when that filled it.
AllocateFromFront(c, a) ==
  LET slab == Front(a.non_full)
      r == SlabAllocate(a.heap[slab])
      a1 == [a EXCEPT !.heap[slab] = r.slab]
      a2 == IF IsFull(c, r.slab)
              THEN FullPushFront(NonFullErase(a1, slab), slab)
              ELSE a1
  IN  IF a.heap[slab].next_free_slot_ = Null
        THEN [a |-> a, ret |-> Null, slab |-> slab, outcome |-> "halted"]
        ELSE [a |-> a2, ret |-> r.slot, slab |-> slab, outcome |-> "ok"]

\* SlabAllocator::Allocate() that registers the new slab in the hash map
\* before it looks at the result of Slab::New.
AllocateOp_RegisterBeforeCheck(c, a, os) ==
  IF Empty(a.non_full)
    THEN LET n == SlabNew(c, a, os)
         IN  IF n.slab = Null
               THEN [a |-> InsertHashMapEntries(c, a, Null), ret |-> Null,
                     slab |-> Null, outcome |-> "ok", mmap |-> "failed"]
               ELSE [mmap |-> "ok"] @@
                    AllocateFromFront(c,
                      InsertHashMapEntries(c, NonFullPushFront(n.a, n.slab), n.slab))
    ELSE [mmap |-> "none"] @@ AllocateFromFront(c, a)

\* SlabAllocator::Allocate() that asks for a new slab on every call.
AllocateOp_AlwaysNew(c, a, os) ==
  LET n == SlabNew(c, a, os)
  IN  IF n.slab = Null
        THEN [a |-> a, ret |-> Null, slab |-> Null, outcome |-> "ok",
              mmap |-> "failed"]
        ELSE [mmap |-> "ok"] @@
             AllocateFromFront(c,
               InsertHashMapEntries(c, NonFullPushFront(n.a, n.slab), n.slab))

\* SlabAllocator::Allocate(); os is the answer of mmap, should it be called.
AllocateOp(c, a, os) ==
  IF Empty(a.non_full)
    THEN LET n == SlabNew(c, a, os)
         IN  IF n.slab = Null
               THEN [a |-> a, ret |-> Null, slab |-> Null, outcome |-> "ok",
                     mmap |-> "failed"]
               ELSE [mmap |-> "ok"] @@
                    AllocateFromFront(c,
                      InsertHashMapEntries(c, NonFullPushFront(n.a, n.slab), n.slab))
    ELSE [mmap |-> "none"] @@ AllocateFromFront(c, a)

\* The guard of line 215 without the "not the sole non-full slab" part.
ShouldDeleteSlab_AlsoSole(a, slab) ==
  IsEmpty(a.heap[slab]) /\ Size(a.non_full) >= 1

\* The guard of line 215 that never lets an empty slab go.
ShouldDeleteSlab_Never(a, slab) == FALSE

\* The guard of line 215 that lets every slab go that became empty.
ShouldDeleteSlab_EveryEmpty(a, slab) == a.heap[slab].size_ = 0

\* Free(), line 215: the slab became empty and is not the sole non-full slab.
ShouldDeleteSlab(a, slab) ==
  IsEmpty(a.heap[slab]) /\ Size(a.non_full) > 1

\* Free(p), lines 198-203 left out: a full slab stays on the full list.
FreeOp_NoMove(c, a, p, dchecks) ==
  LET slab == FindSlabInHashMap(a, p)
      a1 == a
      a2 == [a1 EXCEPT !.heap[slab] = SlabFree(@, p)]
      a3 == IF ShouldDeleteSlab(a2, slab)
              THEN SlabDelete(c, NonFullErase(EraseHashMapEntries(c, a2, slab), slab),
                              slab)
              ELSE a2
  IN  CASE slab = Null ->
             [a |-> a, outcome |-> "halted", slab |-> Null, deleted |-> Null]
        [] slab # Null /\ dchecks /\ ~SlabFreeDcheck(c, slab, p) ->
             [a |-> a1, outcome |-> "halted", slab |-> slab, deleted |-> Null]
        [] slab # Null /\ (dchecks => SlabFreeDcheck(c, slab, p))
             /\ p \notin SlotAddrs(c, slab) ->
             [a |-> a1, outcome |-> "corrupted", slab |-> slab, deleted |-> Null]
        [] OTHER ->
             [a |-> a3, outcome |-> "ok", slab |-> slab,
              deleted |-> IF slab \in DOMAIN a3.heap THEN Null ELSE slab]

\* SlabAllocator::Free(p); dchecks tells whether PERFETTO_DCHECK is compiled
\* in.  A lookup miss fires the PERFETTO_CHECK of FindSlabInHashMap.  A
\* pointer that passes the checks and is the address of no slot makes
\* Slab::Free write a link through it: the memory of the slab is corrupted.
FreeOp(c, a, p, dchecks) ==
  LET slab == FindSlabInHashMap(a, p)
      a1 == IF IsFull(c, a.heap[slab])
              THEN NonFullPushFront(FullErase(a, slab), slab)
              ELSE a
      a2 == [a1 EXCEPT !.heap[slab] = SlabFree(@, p)]
      a3 == IF ShouldDeleteSlab(a2, slab)
              THEN SlabDelete(c, NonFullErase(EraseHashMapEntries(c, a2, slab), slab),
                              slab)
              ELSE a2
  IN  CASE slab = Null ->
             [a |-> a, outcome |-> "halted", slab |-> Null, deleted |-> Null]
        [] slab # Null /\ dchecks /\ ~SlabFreeDcheck(c, slab, p) ->
             [a |-> a1, outcome |-> "halted", slab |-> slab, deleted |-> Null]
        [] slab # Null /\ (dchecks => SlabFreeDcheck(c, slab, p))
             /\ p \notin SlotAddrs(c, slab) ->
             [a |-> a1, outcome |-> "corrupted", slab |-> slab, deleted |-> Null]
        [] OTHER ->
             [a |-> a3, outcome |-> "ok", slab |-> slab,
              deleted |-> IF slab \in DOMAIN a3.heap THEN Null ELSE slab]

\* DeleteSlabs(slabs): pops and deletes until the list is empty.
RECURSIVE DeleteSlabs(_, _, _)
DeleteSlabs(c, list, a) ==
  IF Empty(list)
    THEN [a |-> a, list |-> list]
    ELSE LET slab == Front(list)
             r == PopFront(list, a.heap)
         IN  DeleteSlabs(c, r.list, SlabDelete(c, [a EXCEPT !.heap = r.heap], slab))

\* ~SlabAllocator(): deletes the slabs of both lists, which are left as the
\* loops left them; the hash map is destroyed with the object.
DestructorOp(c, a) ==
  LET r1 == DeleteSlabs(c, a.non_full, a)
      r2 == DeleteSlabs(c, a.full, r1.a)
  IN  [r2.a EXCEPT !.non_full = r1.list, !.full = r2.list, !.index = << >>]

\* ------------------------------------------------------------------------
\* The state machine
\* ------------------------------------------------------------------------

Init ==
  /\ cfg \in Configs
  /\ heap = << >>
  /\ mapped = {}
  /\ block_4KB_aligned_to_slab_ = << >>
  /\ slabs_non_full_ = EmptyList
  /\ slabs_full_ = EmptyList
  /\ live = << >>
  /\ status = "running"
  /\ last = [op |-> "none", ptr |-> Null, mmap |-> "none", slab |-> Null,
             deleted |-> Null]
  /\ ToolsInit

\* The caller calls Allocate().
Allocate ==
  /\ status = "running"
  /\ \E os \in IF Empty(slabs_non_full_) THEN MmapResults(cfg, Cur) ELSE {MapFailed} :
       \E r \in {AllocateOp(cfg, Cur, os)} :
           /\ Becomes(r.a)
           /\ status' = IF r.outcome = "ok" THEN "running" ELSE r.outcome
           /\ live' = IF r.ret # Null THEN Put(live, r.ret, r.slab) ELSE live
           /\ last' = [op |-> "Allocate", ptr |-> r.ret, mmap |-> r.mmap,
                       slab |-> r.slab, deleted |-> Null]
  /\ UNCHANGED cfg

\* The caller frees a pointer it holds.  dchecks is the build flavour:
\* whether PERFETTO_DCHECKs are compiled in.
Free ==
  /\ status = "running"
  /\ \E p \in DOMAIN live, dchecks \in BOOLEAN :
       \E r \in {FreeOp(cfg, Cur, p, dchecks)} :
           /\ Becomes(r.a)
           /\ status' = IF r.outcome = "ok" THEN "running" ELSE r.outcome
           /\ live' = Drop(live, {p})
           /\ last' = [op |-> "Free", ptr |-> p, mmap |-> "none",
                       slab |-> r.slab, deleted |-> r.deleted]
  /\ UNCHANGED cfg

\* The addresses a caller can pass to Free.
Pointers == { WordBytes * n : n \in 0 .. (AddrEnd \div WordBytes) }

\* The caller breaks the contract: it frees a pointer it does not hold (one
\* it already freed, or one the allocator never issued).
FreeNotLive ==
  /\ status = "running"
  /\ \E p \in Pointers \ DOMAIN live, dchecks \in BOOLEAN :
       \E r \in {FreeOp(cfg, Cur, p, dchecks)} :
           /\ Becomes(r.a)
           /\ status' = IF r.outcome = "ok" THEN "misused" ELSE r.outcome
           /\ last' = [op |-> "FreeNotLive", ptr |-> p, mmap |-> "none",
                       slab |-> r.slab, deleted |-> r.deleted]
  /\ UNCHANGED << cfg, live >>

\* The allocator is destroyed.
Destroy ==
  /\ status = "running"
  /\ Becomes(DestructorOp(cfg, Cur))
  /\ status' = "destroyed"
  /\ live' = << >>
  /\ last' = [op |-> "Destroy", ptr |-> Null, mmap |-> "none", slab |-> Null,
              deleted |-> Null]
  /\ UNCHANGED cfg

Next == Allocate \/ Free \/ Destroy

Spec == Init /\ [][Next]_vars

NextMisuse == Allocate \/ Free \/ Destroy \/ FreeNotLive

SpecMisuse == Init /\ [][NextMisuse]_vars

\* The scenario of the slab-reuse property: starting from a fresh allocator,
\* fill one slab (or several) completely, free every element in any order,
\* allocate again, and so on.
FillStep ==
  /\ last.op \in {"none", "Allocate"}
  /\ Allocate

DrainStep ==
  /\ \/ /\ last.op = "Allocate"
        /\ DOMAIN heap # {}
        /\ Cardinality(DOMAIN live) = SlabCapacity(cfg) * Cardinality(DOMAIN heap)
     \/ last.op = "Free"
  /\ Free

RefillStep ==
  /\ last.op = "Free"
  /\ DOMAIN live = {}
  /\ Allocate

NextFillDrain == FillStep \/ DrainStep \/ RefillStep

SpecFillDrain == Init /\ [][NextFillDrain]_vars

\* Instantiation.  The template arguments a program may write down: element
\* sizes that are and are not multiples of a word or of the alignment,
\* alignments that are powers of two dividing a 4KB block, the block itself
\* (the largest alignment the class accepts) and twice the block, and one
\* or two blocks per slab.
CandidateSizes == {1, 8, 12, 16, 24, 40, 64, 100}

CandidateAligns ==
  { al \in {1, 2, 4, 8, 16} : k4KiloBytes % al = 0 }
    \cup {k4KiloBytes, 2 * k4KiloBytes}

CandidateConfigs ==
  [ElementSize : CandidateSizes, ElementAlign : CandidateAligns,
   Blocks4KBPerSlab : {1, 2}]

\* The two static_asserts of SlabAllocator: the instantiation compiles only
\* if both hold.
Accepted(c) ==
  /\ WordBytes <= MemoryAvailableForElementsInSlab(c)
  /\ AlignofSlot(c) <= k4KiloBytes

InitLayout ==
  /\ cfg \in CandidateConfigs
  /\ heap = << >>
  /\ mapped = {}
  /\ block_4KB_aligned_to_slab_ = << >>
  /\ slabs_non_full_ = EmptyList
  /\ slabs_full_ = EmptyList
  /\ live = << >>
  /\ status = "template"
  /\ last = [op |-> "none", ptr |-> Null, mmap |-> "none", slab |-> Null,
             deleted |-> Null]
  /\ ToolsInit

\* The compiler instantiates the class template, or rejects it.
Instantiate ==
  /\ status = "template"
  /\ status' = IF Accepted(cfg) THEN "running" ELSE "rejected"
  /\ last' = [last EXCEPT !.op = "Instantiate"]
  /\ UNCHANGED <<cfg, heap, mapped, block_4KB_aligned_to_slab_,
                 slabs_non_full_, slabs_full_, live>>
  /\ UNCHANGED << toolVars, engineVars >>

\* An accepted instantiation is constructed and allocated from.
NextLayout == Instantiate \/ Allocate

SpecLayout == InitLayout /\ [][NextLayout]_vars

\* The intrusive list on its own: two list instances (the two members of
\* the allocator) and a pool of unlinked nodes, driven by any calls of
\* PushFront, PopFront and Erase that respect their preconditions.
ListNodes == { n * k4KiloBytes : n \in 1 .. MaxSlabs }

ListNames == {"slabs_non_full_", "slabs_full_"}

InitList ==
  /\ cfg \in Configs
  /\ heap = [ n \in ListNodes |-> [prev |-> Null, next |-> Null] ]
  /\ mapped = {}
  /\ block_4KB_aligned_to_slab_ = << >>
  /\ slabs_non_full_ = EmptyList
  /\ slabs_full_ = EmptyList
  /\ live = << >>
  /\ status = "running"
  /\ last = [op |-> "none", node |-> Null, list |-> "none"]
  /\ ToolsInit

ListNamed(name) ==
  IF name = "slabs_non_full_" THEN slabs_non_full_ ELSE slabs_full_

\* The nodes linked into either list.
Linked ==
  { NonFullSeq[i] : i \in 1 .. Len(NonFullSeq) }
    \cup { FullSeq[i] : i \in 1 .. Len(FullSeq) }

\* The call's effect r on the list called `name` and on the nodes.
ListBecomes(name, r) ==
  /\ status = "running"
  /\ heap' = r.heap
  /\ slabs_non_full_' = IF name = "slabs_non_full_" THEN r.list ELSE slabs_non_full_
  /\ slabs_full_' = IF name = "slabs_full_" THEN r.list ELSE slabs_full_
  /\ UNCHANGED <<cfg, mapped, block_4KB_aligned_to_slab_, live, status>>
  /\ UNCHANGED << toolVars, engineVars >>

\* list.PushFront(node), for a node that is in no list.
ListPushFront ==
  \E name \in ListNames, node \in DOMAIN heap \ Linked :
    /\ ListBecomes(name, PushFront(ListNamed(name), heap, node))
    /\ last' = [op |-> "PushFront", node |-> node, list |-> name]

\* list.PopFront(), for a list that is not empty.
ListPopFront ==
  \E name \in ListNames :
    /\ ListSeq(ListNamed(name), heap) # << >>
    /\ ListBecomes(name, PopFront(ListNamed(name), heap))
    /\ last' = [op |-> "PopFront", node |-> ListSeq(ListNamed(name), heap)[1],
                list |-> name]

\* list.Erase(node), for a node that is in the list.
ListErase ==
  \E name \in ListNames :
    \E i \in 1 .. Len(ListSeq(ListNamed(name), heap)) :
      /\ ListBecomes(name, Erase(ListNamed(name), heap,
                                 ListSeq(ListNamed(name), heap)[i]))
      /\ last' = [op |-> "Erase", node |-> ListSeq(ListNamed(name), heap)[i],
                  list |-> name]

NextList == ListPushFront \/ ListPopFront \/ ListErase

SpecList == InitList /\ [][NextList]_vars

\* PopFront() on a list whose front_ is null.  With PERFETTO_DCHECKs
\* compiled in, PERFETTO_DCHECK(front_) stops the process.  Without them
\* front_->next reads through a null pointer, which is undefined: the
\* process faults, or the read yields some pointer value, which becomes
\* front_ (its prev is cleared if it is not null), and size_ wraps below 0.
PopFrontOnEmpty(list, h, dchecks) ==
  IF dchecks
    THEN { [list |-> list, heap |-> h, status |-> "halted"] }
    ELSE { [list |-> list, heap |-> h, status |-> "faulted"] }
         \cup
         { [ list |-> [front_ |-> front, size_ |-> (list.size_ - 1) % SizeMax],
             heap |-> IF front # Null THEN [h EXCEPT ![front].prev = Null] ELSE h,
             status |-> "corrupted" ] : front \in {Null} \cup DOMAIN h }

\* The caller breaks the contract: list.PopFront() on an empty list.
ListPopFrontEmpty ==
  /\ status = "running"
  /\ \E name \in ListNames, dchecks \in BOOLEAN :
       /\ ListNamed(name).front_ = Null
       /\ \E r \in PopFrontOnEmpty(ListNamed(name), heap, dchecks) :
            /\ heap' = r.heap
            /\ slabs_non_full_' =
                 IF name = "slabs_non_full_" THEN r.list ELSE slabs_non_full_
            /\ slabs_full_' = IF name = "slabs_full_" THEN r.list ELSE slabs_full_
            /\ status' = r.status
       /\ last' = [op |-> "PopFrontEmpty", node |-> Null, list |-> name]
  /\ UNCHANGED <<cfg, mapped, block_4KB_aligned_to_slab_, live>>
  /\ UNCHANGED << toolVars, engineVars >>

NextListMisuse == NextList \/ ListPopFrontEmpty

SpecListMisuse == InitList /\ [][NextListMisuse]_vars

\* ------------------------------------------------------------------------
\* gen_proto_extensions::ValidateRegistry
\* A Range is a pair [first, second] of field numbers, both inclusive.  A
\* base::Status is the message of the error, or OkStatus.
\* ------------------------------------------------------------------------

OkStatus == ""

\* The messages of the ErrStatus calls, as their format strings.
Err ==
  [ Scope |->
      "'scope' must be \"perfetto.protos.TrackEvent\" in '%s'",
    NoRanges |->
      "No ranges specified in '%s'",
    InvalidRange |->
      "Invalid range [%d, %d] for '%s' in '%s'",
    OverlappingRanges |->
      "Overlapping ranges [%d, %d] and [%d, %d] for '%s' in '%s'",
    NoAllocations |->
      "No allocations in '%s'",
    NoAllocationRanges |->
      "No ranges for allocation '%s' in '%s'",
    AllocationsOverlap |->
      "Allocation ranges [%d, %d] and [%d, %d] overlap (gap or overlap) in '%s'",
    NotTiling |->
      "Allocations do not exactly tile the registry ranges (gap or overlap) in '%s'",
    UnallocatedHasPath |->
      "Unallocated entry should not have 'proto' or 'registry' in '%s'",
    NeitherPath |->
      "Allocation '%s' must have 'proto' or 'registry' in '%s'",
    BothPaths |->
      "Allocation '%s' has both 'proto' and 'registry' in '%s'" ]

\* The characters of each message.
Chars(msg) ==
  CASE msg = Err.Scope ->
    <<"'", "s", "c", "o", "p", "e", "'", " ", "m", "u", "s", "t", " ", "b",
      "e", " ", "\"", "p", "e", "r", "f", "e", "t", "t", "o", ".", "p",
      "r", "o", "t", "o", "s", ".", "T", "r", "a", "c", "k", "E", "v", "e",
      "n", "t", "\"", " ", "i", "n", " ", "'", "%", "s", "'">>
    [] msg = Err.NoRanges ->
    <<"N", "o", " ", "r", "a", "n", "g", "e", "s", " ", "s", "p", "e", "c",
      "i", "f", "i", "e", "d", " ", "i", "n", " ", "'", "%", "s", "'">>
    [] msg = Err.InvalidRange ->
    <<"I", "n", "v", "a", "l", "i", "d", " ", "r", "a", "n", "g", "e", " ",
      "[", "%", "d", ",", " ", "%", "d", "]", " ", "f", "o", "r", " ", "'",
      "%", "s", "'", " ", "i", "n", " ", "'", "%", "s", "'">>
    [] msg = Err.OverlappingRanges ->
    <<"O", "v", "e", "r", "l", "a", "p", "p", "i", "n", "g", " ", "r", "a",
      "n", "g", "e", "s", " ", "[", "%", "d", ",", " ", "%", "d", "]", " ",
      "a", "n", "d", " ", "[", "%", "d", ",", " ", "%", "d", "]", " ", "f",
      "o", "r", " ", "'", "%", "s", "'", " ", "i", "n", " ", "'", "%", "s",
      "'">>
    [] msg = Err.NoAllocations ->
    <<"N", "o", " ", "a", "l", "l", "o", "c", "a", "t", "i", "o", "n", "s",
      " ", "i", "n", " ", "'", "%", "s", "'">>
    [] msg = Err.NoAllocationRanges ->
    <<"N", "o", " ", "r", "a", "n", "g", "e", "s", " ", "f", "o", "r", " ",
      "a", "l", "l", "o", "c", "a", "t", "i", "o", "n", " ", "'", "%", "s",
      "'", " ", "i", "n", " ", "'", "%", "s", "'">>
    [] msg = Err.AllocationsOverlap ->
    <<"A", "l", "l", "o", "c", "a", "t", "i", "o", "n", " ", "r", "a", "n",
      "g", "e", "s", " ", "[", "%", "d", ",", " ", "%", "d", "]", " ", "a",
      "n", "d", " ", "[", "%", "d", ",", " ", "%", "d", "]", " ", "o", "v",
      "e", "r", "l", "a", "p", " ", "(", "g", "a", "p", " ", "o", "r", " ",
      "o", "v", "e", "r", "l", "a", "p", ")", " ", "i", "n", " ", "'", "%",
      "s", "'">>
    [] msg = Err.NotTiling ->
    <<"A", "l", "l", "o", "c", "a", "t", "i", "o", "n", "s", " ", "d", "o",
      " ", "n", "o", "t", " ", "e", "x", "a", "c", "t", "l", "y", " ", "t",
      "i", "l", "e", " ", "t", "h", "e", " ", "r", "e", "g", "i", "s", "t",
      "r", "y", " ", "r", "a", "n", "g", "e", "s", " ", "(", "g", "a", "p",
      " ", "o", "r", " ", "o", "v", "e", "r", "l", "a", "p", ")", " ", "i",
      "n", " ", "'", "%", "s", "'">>
    [] msg = Err.UnallocatedHasPath ->
    <<"U", "n", "a", "l", "l", "o", "c", "a", "t", "e", "d", " ", "e", "n",
      "t", "r", "y", " ", "s", "h", "o", "u", "l", "d", " ", "n", "o", "t",
      " ", "h", "a", "v", "e", " ", "'", "p", "r", "o", "t", "o", "'", " ",
      "o", "r", " ", "'", "r", "e", "g", "i", "s", "t", "r", "y", "'", " ",
      "i", "n", " ", "'", "%", "s", "'">>
    [] msg = Err.NeitherPath ->
    <<"A", "l", "l", "o", "c", "a", "t", "i", "o", "n", " ", "'", "%", "s",
      "'", " ", "m", "u", "s", "t", " ", "h", "a", "v", "e", " ", "'", "p",
      "r", "o", "t", "o", "'", " ", "o", "r", " ", "'", "r", "e", "g", "i",
      "s", "t", "r", "y", "'", " ", "i", "n", " ", "'", "%", "s", "'">>
    [] msg = Err.BothPaths ->
    <<"A", "l", "l", "o", "c", "a", "t", "i", "o", "n", " ", "'", "%", "s",
      "'", " ", "h", "a", "s", " ", "b", "o", "t", "h", " ", "'", "p", "r",
      "o", "t", "o", "'", " ", "a", "n", "d", " ", "'", "r", "e", "g", "i",
      "s", "t", "r", "y", "'", " ", "i", "n", " ", "'", "%", "s", "'">>
    [] OTHER -> << >>

\* testing::HasSubstr, std::string::find: sub occurs in msg.
HasSubstr(msg, sub) ==
  \E i \in 1 .. (Len(Chars(msg)) - Len(sub) + 1) :
    SubSeq(Chars(msg), i, i + Len(sub) - 1) = sub

\* operator< of std::pair.
RangeLess(a, b) ==
  a.first < b.first \/ (a.first = b.first /\ a.second < b.second)

RECURSIVE InsertSorted(_, _)
InsertSorted(r, sorted) ==
  IF sorted = << >> THEN << r >>
  ELSE IF RangeLess(r, sorted[1]) THEN << r >> \o sorted
  ELSE << sorted[1] >> \o InsertSorted(r, Tail(sorted))

\* std::sort(ranges.begin(), ranges.end()).
RECURSIVE SortRanges(_)
SortRanges(ranges) ==
  IF ranges = << >> THEN << >>
  ELSE InsertSorted(ranges[1], SortRanges(Tail(ranges)))

\* SortAndValidateRanges: the sorted ranges and the status of the first
\* range that is inverted or starts inside its predecessor.
SortAndValidateRanges(ranges) ==
  LET sorted == SortRanges(ranges)
      Inverted(i) == sorted[i].first > sorted[i].second
      Overlaps(i) == i > 1 /\ sorted[i].first <= sorted[i - 1].second
      bad == { i \in 1 .. Len(sorted) : Inverted(i) \/ Overlaps(i) }
      first == CHOOSE i \in bad : \A j \in bad : i <= j
  IN  [ ranges |-> sorted,
        status |-> IF bad = {} THEN OkStatus
                   ELSE IF Inverted(first) THEN Err.InvalidRange
                   ELSE Err.OverlappingRanges ]

\* MergeAdjacentRanges() that merges nothing.
MergeAdjacentRanges_NoMerge(sorted) == sorted

\* MergeAdjacentRanges: a range that starts right after the last merged
\* one extends it.
RECURSIVE MergeAdjacentRanges(_)
MergeAdjacentRanges(sorted) ==
  IF sorted = << >> THEN << >>
  ELSE LET merged == MergeAdjacentRanges(SubSeq(sorted, 1, Len(sorted) - 1))
           r == sorted[Len(sorted)]
       IN  IF merged # << >> /\ r.first = merged[Len(merged)].second + 1
             THEN [merged EXCEPT ![Len(merged)].second = r.second]
             ELSE Append(merged, r)

\* The proto/registry check that lets an entry with both paths through.
CheckAllocation_BothAllowed(alloc) ==
  IF alloc.name = "unallocated"
    THEN IF alloc.proto # "" \/ alloc.registry # ""
           THEN Err.UnallocatedHasPath ELSE OkStatus
    ELSE IF alloc.repo = "" /\ alloc.proto = "" /\ alloc.registry = ""
           THEN Err.NeitherPath
           ELSE OkStatus

\* The body of the last loop of ValidateRegistry, for one allocation.
CheckAllocation(alloc) ==
  IF alloc.name = "unallocated"
    THEN IF alloc.proto # "" \/ alloc.registry # ""
           THEN Err.UnallocatedHasPath ELSE OkStatus
    ELSE LET has_proto == alloc.proto # ""
             has_registry == alloc.registry # ""
             has_repo == alloc.repo # ""
         IN  IF ~has_repo /\ ~has_proto /\ ~has_registry THEN Err.NeitherPath
             ELSE IF has_proto /\ has_registry THEN Err.BothPaths
             ELSE OkStatus

\* The status of the first element of statuses that is an error.
FirstError(statuses) ==
  LET bad == { i \in 1 .. Len(statuses) : statuses[i] # OkStatus }
  IN  IF bad = {} THEN OkStatus
      ELSE statuses[CHOOSE i \in bad : \A j \in bad : i <= j]

RECURSIVE Concat(_)
Concat(seqs) == IF seqs = << >> THEN << >> ELSE seqs[1] \o Concat(Tail(seqs))

\* The loop that validates each allocation's ranges on its own.
AllocationRangesStatus(alloc) ==
  IF alloc.ranges = << >> THEN Err.NoAllocationRanges
  ELSE SortAndValidateRanges(alloc.ranges).status

ValidateRegistry(r) ==
  IF r.scope # "perfetto.protos.TrackEvent" THEN Err.Scope
  ELSE IF r.ranges = << >> THEN Err.NoRanges
  ELSE LET reg_ranges == SortAndValidateRanges(r.ranges)
       IN
  IF reg_ranges.status # OkStatus THEN reg_ranges.status
  ELSE IF r.allocations = << >> THEN Err.NoAllocations
  ELSE LET each == FirstError([ i \in 1 .. Len(r.allocations) |->
                                  AllocationRangesStatus(r.allocations[i]) ])
       IN
  IF each # OkStatus THEN each
  ELSE LET all_alloc_ranges ==
             SortRanges(Concat([ i \in 1 .. Len(r.allocations) |->
                                   SortRanges(r.allocations[i].ranges) ]))
       IN
  IF \E i \in 2 .. Len(all_alloc_ranges) :
       all_alloc_ranges[i].first <= all_alloc_ranges[i - 1].second
    THEN Err.AllocationsOverlap
  ELSE IF MergeAdjacentRanges(all_alloc_ranges)
            # MergeAdjacentRanges(reg_ranges.ranges)
    THEN Err.NotTiling
  ELSE FirstError([ i \in 1 .. Len(r.allocations) |->
                      CheckAllocation(r.allocations[i]) ])

\* The registries handed to ValidateRegistry.  Field numbers run from 1 to
\* MaxField; a Range may be inverted.
Ranges == [first : 1 .. MaxField, second : 1 .. MaxField]

RangeLists == { << >> } \cup { << a >> : a \in Ranges }
                \cup { << a, b >> : a, b \in Ranges }

\* Range layouts: a registry of up to two ranges and up to two allocations,
\* the first with up to two ranges and the second with up to one, each a
\* local allocation with a proto path.
LayoutRegistries ==
  LET Local(name, ranges) ==
        [name |-> name, ranges |-> ranges, repo |-> "",
         proto |-> "a.proto", registry |-> ""]
  IN  { [scope |-> "perfetto.protos.TrackEvent", ranges |-> rr,
         allocations |-> aa] :
          rr \in RangeLists,
          aa \in { << >> }
                 \cup { << Local("a", x) >> : x \in RangeLists }
                 \cup { << Local("a", x), Local("b", y) >> :
                          x \in RangeLists,
                          y \in { z \in RangeLists : Len(z) <= 1 } } }

\* Entries of every kind over a layout that tiles: names, proto and
\* registry paths and repos set or empty, with a right or a wrong scope.
Allocations(ranges) ==
  [name : {"unallocated", "a"}, ranges : {ranges},
   repo : {"", "https://example.com"},
   proto : {"", "a.proto"}, registry : {"", "sub.json"}]

EntryRegistries ==
  { [scope |-> sc,
     ranges |-> << [first |-> 1, second |-> 2] >>,
     allocations |-> << x, y >>] :
      sc \in {"perfetto.protos.TrackEvent", "perfetto.protos.TracePacket"},
      x \in Allocations(<< [first |-> 1, second |-> 1] >>),
      y \in Allocations(<< [first |-> 2, second |-> 2] >>) }

\* The allocator is not part of the runs of the tools: it stays as
\* constructed.
AllocatorIdle ==
  /\ cfg = CHOOSE c \in Configs : c.ElementSize = WordBytes
  /\ heap = << >>
  /\ mapped = {}
  /\ block_4KB_aligned_to_slab_ = << >>
  /\ slabs_non_full_ = EmptyList
  /\ slabs_full_ = EmptyList
  /\ live = << >>
  /\ status = "running"

InitRegistry ==
  /\ AllocatorIdle
  /\ reg \in LayoutRegistries \cup EntryRegistries
  /\ register_count_ = 0
  /\ scratch_slots_ = << >>
  /\ bytecode_ = << >>
  /\ cache_ = << >>
  /\ tagged_dataframes = << >>
  /\ savepoint_version = 0
  /\ idx = 0
  /\ producer_id_to_sequence_ids_ = << >>
  /\ sequence_id_to_vms_ = << >>
  /\ vms_ = << >>
  /\ import_logs = [protovm_abort |-> 0, protovm_registration_error |-> 0]
  /\ last = [op |-> "none", status |-> OkStatus]

\* The caller validates the registry.
Validate ==
  /\ last.op = "none"
  /\ last' = [op |-> "ValidateRegistry", status |-> ValidateRegistry(reg)]
  /\ UNCHANGED allocVars
  /\ UNCHANGED status
  /\ UNCHANGED << toolVars, engineVars >>

SpecRegistry == InitRegistry /\ [][Validate]_vars

\* ------------------------------------------------------------------------
\* interpreter::BytecodeBuilder
\* A register handle is its index.  A builder b is the record of
\* register_count_, scratch_slots_ and bytecode_.
\* ------------------------------------------------------------------------

Builder ==
  [ register_count_ |-> register_count_, scratch_slots_ |-> scratch_slots_,
    bytecode_ |-> bytecode_ ]

BuilderBecomes(b) ==
  /\ register_count_' = b.register_count_
  /\ scratch_slots_' = b.scratch_slots_
  /\ bytecode_' = b.bytecode_

\* AllocateRegister<T>(): RwHandle<T>{register_count_++}.
AllocateRegister(b) ==
  [ b |-> [b EXCEPT !.register_count_ = (@ + 1) % (Uint32Max + 1)],
    index |-> b.register_count_ ]

\* FindBestFitSlot(size): the loop from slot i on, with the best slot found
\* so far and its size.
RECURSIVE FindBestFitSlot(_, _, _, _, _)
FindBestFitSlot(slots, size, i, best, best_size) ==
  IF i > Len(slots) THEN best
  ELSE IF ~slots[i].in_use /\ slots[i].size >= size /\ slots[i].size < best_size
    THEN FindBestFitSlot(slots, size, i + 1, i, slots[i].size)
    ELSE FindBestFitSlot(slots, size, i + 1, best, best_size)

\* FindSlotByRegisters(regs): the first slot with the slab register.
FindSlotByRegisters(slots, regs) ==
  LET found == { k \in 1 .. Len(slots) : slots[k].slab = regs.slab }
  IN  IF found = {} THEN Nullopt ELSE CHOOSE k \in found : \A j \in found : k <= j

GetOrCreateScratchRegisters(b, size) ==
  LET best == FindBestFitSlot(b.scratch_slots_, size, 1, Nullopt, Uint32Max)
  IN  IF best # Nullopt
        THEN [ b |-> b,
               regs |-> [slab |-> b.scratch_slots_[best].slab,
                         span |-> b.scratch_slots_[best].span],
               outcome |-> IF b.scratch_slots_[best].in_use
                             THEN "halted" ELSE "ok" ]
        ELSE LET slab == AllocateRegister(b)
                 span == AllocateRegister(slab.b)
             IN  [ b |-> [span.b EXCEPT !.scratch_slots_ =
                            Append(@, [size |-> size, slab |-> slab.index,
                                       span |-> span.index, in_use |-> FALSE])],
                   regs |-> [slab |-> slab.index, span |-> span.index],
                   outcome |-> "ok" ]

\* AllocateScratch() that does not mark the slot in use.
AllocateScratch_NotMarked(b, size) ==
  LET g == GetOrCreateScratchRegisters(b, size)
  IN  [ b |-> [g.b EXCEPT !.bytecode_ =
                 Append(@, [size |-> size, dest_slab_register |-> g.regs.slab,
                            dest_span_register |-> g.regs.span])],
        regs |-> g.regs, outcome |-> g.outcome ]

\* AllocateScratch(size): the registers, the AllocateIndices opcode, and the
\* slot marked in use.
AllocateScratch(b, size) ==
  LET g == GetOrCreateScratchRegisters(b, size)
      b1 == [g.b EXCEPT !.bytecode_ =
                Append(@, [size |-> size, dest_slab_register |-> g.regs.slab,
                           dest_span_register |-> g.regs.span])]
      slot_idx == FindSlotByRegisters(b1.scratch_slots_, g.regs)
  IN  IF g.outcome # "ok" THEN [b |-> g.b, regs |-> g.regs, outcome |-> g.outcome]
      ELSE IF slot_idx = Nullopt
        THEN [b |-> b1, regs |-> g.regs, outcome |-> "halted"]
        ELSE [ b |-> [b1 EXCEPT !.scratch_slots_[slot_idx].in_use = TRUE],
               regs |-> g.regs, outcome |-> "ok" ]

\* MarkScratchInUse(regs): PERFETTO_CHECK that the slot exists.
MarkScratchInUse(b, regs) ==
  LET slot_idx == FindSlotByRegisters(b.scratch_slots_, regs)
  IN  IF slot_idx = Nullopt
        THEN [b |-> b, outcome |-> "halted"]
        ELSE [ b |-> [b EXCEPT !.scratch_slots_[slot_idx].in_use = TRUE],
               outcome |-> "ok" ]

\* ReleaseScratch(regs): nothing happens if there is no such slot.
ReleaseScratch(b, regs) ==
  LET slot_idx == FindSlotByRegisters(b.scratch_slots_, regs)
  IN  IF slot_idx = Nullopt THEN b
      ELSE [b EXCEPT !.scratch_slots_[slot_idx].in_use = FALSE]

\* A default-constructed builder.
InitBuilder ==
  /\ AllocatorIdle
  /\ ToolsInit
  /\ last = [op |-> "none", size |-> 0, regs |-> [slab |-> 0, span |-> 0]]

CallGetOrCreateScratchRegisters ==
  /\ status = "running"
  /\ register_count_ + 2 <= MaxRegisters
  /\ \E size \in {1, 2, Uint32Max} :
       \E g \in {GetOrCreateScratchRegisters(Builder, size)} :
         /\ BuilderBecomes(g.b)
         /\ status' = IF g.outcome = "ok" THEN "running" ELSE g.outcome
         /\ last' = [op |-> "GetOrCreateScratchRegisters", size |-> size,
                     regs |-> g.regs]
  /\ UNCHANGED << allocVars, engineVars, reg, cache_ >>

CallAllocateScratch ==
  /\ status = "running"
  /\ register_count_ + 2 <= MaxRegisters
  /\ Len(bytecode_) < MaxBytecode
  /\ \E size \in {1, 2, Uint32Max} :
       \E g \in {AllocateScratch(Builder, size)} :
         /\ BuilderBecomes(g.b)
         /\ status' = IF g.outcome = "ok" THEN "running" ELSE g.outcome
         /\ last' = [op |-> "AllocateScratch", size |-> size,
                     regs |-> g.regs]
  /\ UNCHANGED << allocVars, engineVars, reg, cache_ >>

\* The register pairs a caller may hand back: any slab register index with
\* the register after it.
CallMarkScratchInUse ==
  /\ status = "running"
  /\ \E r \in 0 .. (MaxRegisters - 1) :
       \E m \in {MarkScratchInUse(Builder, [slab |-> r, span |-> r + 1])} :
         /\ BuilderBecomes(m.b)
         /\ status' = IF m.outcome = "ok" THEN "running" ELSE m.outcome
         /\ last' = [op |-> "MarkScratchInUse", size |-> 0,
                     regs |-> [slab |-> r, span |-> r + 1]]
  /\ UNCHANGED << allocVars, engineVars, reg, cache_ >>

CallReleaseScratch ==
  /\ status = "running"
  /\ \E r \in 0 .. (MaxRegisters - 1) :
       /\ BuilderBecomes(ReleaseScratch(Builder, [slab |-> r, span |-> r + 1]))
       /\ last' = [op |-> "ReleaseScratch", size |-> 0,
                   regs |-> [slab |-> r, span |-> r + 1]]
  /\ UNCHANGED << allocVars, engineVars, reg, cache_, status >>

SpecScratch ==
  InitBuilder
    /\ [][CallGetOrCreateScratchRegisters \/ CallAllocateScratch
            \/ CallMarkScratchInUse \/ CallReleaseScratch]_vars

\* ------------------------------------------------------------------------
\* Properties
\* ------------------------------------------------------------------------

NonFull == ListSeq(slabs_non_full_, heap)

Full == ListSeq(slabs_full_, heap)

Count(seq, x) == Cardinality({ i \in 1 .. Len(seq) : seq[i] = x })

\* The blocks Slab::New mapped for the slab at address slab.
SlabBlocks(slab) == BlockRange(slab, slab + NewLength(cfg))

\* The 4KB-aligned addresses inside [GetBeginAddress(), GetEndAddress()).
SlabKeys(slab) == BlockRange(GetBeginAddress(slab), GetEndAddress(cfg, slab))

\* C1: as long as only live pointers are freed and every mapping succeeds,
\* each pointer Allocate returns is non-null and differs from every pointer
\* that is live at that moment.
C1_AllocateReturnsFreshPointer ==
  [][ (last'.op = "Allocate" /\ last'.mmap # "failed")
        => /\ status' = "running"
           /\ last'.ptr # Null
           /\ last'.ptr \notin DOMAIN live ]_vars

C1_Witness ==
  /\ last.op = "Allocate"
  /\ last.mmap = "none"
  /\ last.ptr \in DOMAIN live
  /\ Cardinality(DOMAIN live) >= SlabCapacity(cfg) + 1
  /\ \E s \in DOMAIN heap : FreeList(heap[s]) # << >> /\ heap[s].size_ > 0

\* C2: after every completed Allocate or Free every live slab is in exactly
\* one of slabs_non_full_ and slabs_full_: in slabs_full_ iff its live count
\* equals SlabCapacity, in slabs_non_full_ iff it is below.
C2_ListMembershipMatchesFullness ==
  status = "running" =>
    \A s \in DOMAIN heap :
      /\ Count(NonFull, s) + Count(Full, s) = 1
      /\ Count(Full, s) = 1 <=> heap[s].size_ = SlabCapacity(cfg)
      /\ Count(NonFull, s) = 1 <=> heap[s].size_ < SlabCapacity(cfg)

C2_Witness ==
  /\ last.op = "Free"
  /\ Len(Full) >= 1
  /\ Len(NonFull) >= 2
  /\ \A s \in DOMAIN heap : Count(NonFull, s) + Count(Full, s) = 1

\* C3: after every completed Allocate or Free the address index holds, for
\* every live slab, an entry for each 4KB-aligned address in
\* [GetBeginAddress(), GetEndAddress()) that maps to the slab, and holds no
\* entry whose slab has been destroyed.
C3_IndexMatchesLiveSlabs ==
  status = "running" =>
    /\ \A s \in DOMAIN heap :
         \A k \in SlabKeys(s) :
           /\ k \in DOMAIN block_4KB_aligned_to_slab_
           /\ block_4KB_aligned_to_slab_[k] = s
    /\ \A k \in DOMAIN block_4KB_aligned_to_slab_ :
         block_4KB_aligned_to_slab_[k] \in DOMAIN heap

C3_Witness ==
  /\ last.op = "Free"
  /\ last.deleted # Null
  /\ \E s \in DOMAIN heap :
       /\ Cardinality(SlabKeys(s)) >= 2
       /\ \A k \in SlabKeys(s) :
            k \in DOMAIN block_4KB_aligned_to_slab_
            /\ block_4KB_aligned_to_slab_[k] = s

\* C4 (as claimed): when Free leaves the owning slab with live count 0, the
\* slab is removed from the address index, erased from the non-full list and
\* unmapped if the non-full list, counted with this slab in it, holds at
\* least 2 slabs; the sole non-full slab stays in the list, indexed and
\* mapped.
C4_ThrashAvoidance ==
  [][ (last'.op = "Free" /\ heap[live[last'.ptr]].size_ = 1)
        => LET s == live[last'.ptr]
               n == Size(slabs_non_full_)
                    + (IF IsFull(cfg, heap[s]) THEN 1 ELSE 0)
           IN  IF n >= 2
                 THEN /\ s \notin DOMAIN heap'
                      /\ SlabKeys(s) \cap DOMAIN block_4KB_aligned_to_slab_' = {}
                      /\ Count(ListSeq(slabs_non_full_', heap'), s) = 0
                      /\ SlabBlocks(s) \cap mapped' = {}
                 ELSE /\ s \in DOMAIN heap'
                      /\ Count(ListSeq(slabs_non_full_', heap'), s) = 1
                      /\ \A k \in SlabKeys(s) :
                           /\ k \in DOMAIN block_4KB_aligned_to_slab_'
                           /\ block_4KB_aligned_to_slab_'[k] = s
                      /\ SlabBlocks(s) \subseteq mapped' ]_vars

\* C5: a slab that holds a live element is never unmapped or removed from
\* the address index by Free: every live pointer stays the address of a slot
\* of the slab that issued it, that slab stays constructed and mapped, and
\* FindSlabInHashMap resolves the pointer to it.
C5_PointerStability ==
  status = "running" =>
    \A p \in DOMAIN live :
      /\ live[p] \in DOMAIN heap
      /\ FindSlabInHashMap(Cur, p) = live[p]
      /\ SlabBlocks(live[p]) \subseteq mapped
      /\ p \in SlotAddrs(cfg, live[p])
      /\ heap[live[p]].slots_[p] = ElementBytes

C5_Witness ==
  /\ last.op = "Free"
  /\ last.deleted # Null
  /\ \E p \in DOMAIN live :
       /\ AlignDown4KB(p) # live[p]
       /\ FindSlabInHashMap(Cur, p) = live[p]

\* C6 (as claimed): a double free is fail-fast.  Free(p) called again right
\* after Free(p) halts the process and leaves the slabs as they were: p is
\* not pushed onto the free list a second time and no live count is
\* decremented.
C6_DoubleFreeHalts ==
  [][ (last.op = "Free" /\ last'.op = "FreeNotLive" /\ last'.ptr = last.ptr)
        => (status' = "halted" /\ heap' = heap) ]_vars

\* The addresses that are the address of a slot wherever a slab is mapped.
PossibleSlotAddrs ==
  UNION { SlotAddrs(cfg, n * GetSysPageSize) : n \in 1 .. AddrBlocks }

\* C7 (as claimed): freeing a pointer that Allocate never returned (here: an
\* address that is the address of no slot, inside a live slab or not)
\* reaches the fatal invariant path and changes neither list, the index nor
\* any slab.
C7_ForeignFreeHalts ==
  [][ (last'.op = "FreeNotLive" /\ last'.ptr \notin PossibleSlotAddrs)
        => /\ status' = "halted"
           /\ UNCHANGED << heap, mapped, block_4KB_aligned_to_slab_,
                           slabs_non_full_, slabs_full_ >> ]_vars

\* C8: when the mmap call inside Allocate fails, Allocate returns null and
\* the allocator is as before the call: both lists, the address index, the
\* mappings and every slab (live count, free list) are unchanged.
C8_FailedMappingLeavesNoTrace ==
  [][ (last'.op = "Allocate" /\ last'.mmap = "failed")
        => /\ last'.ptr = Null
           /\ status' = status
           /\ UNCHANGED << heap, mapped, block_4KB_aligned_to_slab_,
                           slabs_non_full_, slabs_full_, live >> ]_vars

C8_Witness ==
  /\ last.op = "Allocate"
  /\ last.mmap = "failed"
  /\ last.ptr = Null
  /\ Len(Full) >= 1
  /\ DOMAIN block_4KB_aligned_to_slab_ # {}

\* C9: Allocate returns null only when the non-full list was empty and the
\* mmap call failed; when the non-full list is not empty, Allocate calls
\* mmap not at all and returns a non-null pointer.
C9_NullOnlyOnFailedMapping ==
  [][ last'.op = "Allocate"
        => /\ last'.ptr = Null
                => (Empty(slabs_non_full_) /\ last'.mmap = "failed")
           /\ ~Empty(slabs_non_full_)
                => (last'.mmap = "none" /\ last'.ptr # Null
                    /\ status' = "running") ]_vars

C9_Witness ==
  /\ last.op = "Allocate"
  /\ last.mmap = "none"
  /\ last.ptr # Null
  /\ Len(Full) >= 1
  /\ Len(NonFull) >= 1

\* C10: from a fresh allocator, allocating SlabCapacity elements makes one
\* slab, which is full; freeing all of them in any order leaves exactly that
\* slab, in the non-full list with live count 0; the next Allocate maps no
\* slab and returns an address inside that same slab.
C10_DrainedSlabIsReused ==
  [][ /\ (last'.op = "Allocate"
          /\ Cardinality(DOMAIN live') = SlabCapacity(cfg))
        => \E s \in DOMAIN heap' :
             /\ DOMAIN heap' = {s}
             /\ heap'[s].size_ = SlabCapacity(cfg)
             /\ ListSeq(slabs_full_', heap') = << s >>
             /\ ListSeq(slabs_non_full_', heap') = << >>
      /\ (last'.op = "Free" /\ DOMAIN live' = {})
        => \E s \in DOMAIN heap' :
             /\ DOMAIN heap' = {s}
             /\ heap'[s].size_ = 0
             /\ ListSeq(slabs_non_full_', heap') = << s >>
             /\ ListSeq(slabs_full_', heap') = << >>
             /\ SlabBlocks(s) \subseteq mapped'
      /\ (last.op = "Free" /\ DOMAIN live = {} /\ last'.op = "Allocate")
        => /\ last'.mmap = "none"
           /\ DOMAIN heap' = DOMAIN heap
           /\ mapped' = mapped
           /\ \E s \in DOMAIN heap : last'.ptr \in SlotAddrs(cfg, s) ]_vars

C10_Witness ==
  /\ last.op = "Allocate"
  /\ last.mmap = "none"
  /\ Cardinality(DOMAIN live) = 1
  /\ \E s \in DOMAIN heap :
       /\ DOMAIN heap = {s}
       /\ last.ptr \in SlotAddrs(cfg, s)
       /\ last.ptr # SlotAddr(cfg, s, 0)

\* C11: 2 * SlabCapacity + 1 consecutive successful Allocate calls with no
\* Free in between, on a fresh allocator (or one whose elements were all
\* freed), leave exactly 3 slabs: two in the full list, each with live count
\* SlabCapacity, and one in the non-full list with live count 1.
C11_ThreeSlabsAfterTwoCapacitiesPlusOne ==
  (last.op = "Allocate"
   /\ Cardinality(DOMAIN live) = 2 * SlabCapacity(cfg) + 1)
    => /\ Cardinality(DOMAIN heap) = 3
       /\ Len(Full) = 2
       /\ Size(slabs_full_) = 2
       /\ \A i \in 1 .. Len(Full) : heap[Full[i]].size_ = SlabCapacity(cfg)
       /\ Len(NonFull) = 1
       /\ Size(slabs_non_full_) = 1
       /\ \A i \in 1 .. Len(NonFull) : heap[NonFull[i]].size_ = 1
       /\ DOMAIN heap = { Full[i] : i \in 1 .. Len(Full) }
                        \cup { NonFull[i] : i \in 1 .. Len(NonFull) }

\* The state 2 * SlabCapacity + 1 allocations after construction: nothing
\* was ever freed, so every free list is as the constructor left it.
C11_Witness ==
  /\ last.op = "Allocate"
  /\ last.ptr # Null
  /\ Cardinality(DOMAIN live) = 2 * SlabCapacity(cfg) + 1
  /\ Cardinality(DOMAIN heap) = 3
  /\ mapped = UNION { SlabBlocks(s) : s \in DOMAIN heap }
  /\ \A s \in DOMAIN heap :
       \A p \in SlotAddrs(cfg, s) :
         heap[s].slots_[p] \in {ElementBytes, SlabCtor(cfg, s).slots_[p]}

\* C12: Slab::Delete releases exactly the byte range that Slab::New mapped
\* for the slab: the length given to munmap is the length given to mmap, so
\* a step that deletes a slab takes precisely that slab's blocks out of the
\* mapped set.
C12_DeleteReleasesWhatNewMapped ==
  [][(last'.op = "Free" /\ last'.deleted # Null)
       => /\ DeleteLength(cfg) = NewLength(cfg)
          /\ mapped' = mapped \ SlabBlocks(last'.deleted)]_vars

\* The size of one slot as the compiler lays the slots_ array out.
C13_SlotSize == SizeofSlab(cfg, 2) - SizeofSlab(cfg, 1)

\* C13: the capacity of an instantiated slab is the byte budget
\* Blocks4KBPerSlab * 4096 minus the per-slab overhead, divided by the size
\* of one slot (the element size padded to the slot's alignment, and at
\* least a pointer).
C13_CapacityDividesBySlotSize ==
  status = "running"
    => /\ SlabCapacity(cfg) =
            (cfg.Blocks4KBPerSlab * k4KiloBytes - SlabOverhead(cfg))
              \div C13_SlotSize
       /\ \A s \in DOMAIN heap :
            Cardinality(DOMAIN heap[s].slots_) =
              (cfg.Blocks4KBPerSlab * k4KiloBytes - SlabOverhead(cfg))
                \div C13_SlotSize

\* C14: instantiation is rejected at compile time for every configuration
\* in which the per-slab overhead plus the size of one slot exceeds the
\* byte budget Blocks4KBPerSlab * 4096, and every other configuration is
\* accepted with SlabCapacity >= 1.
C14_RejectsWhatDoesNotFit ==
  last.op = "Instantiate"
    => IF SlabOverhead(cfg) + (SizeofSlab(cfg, 2) - SizeofSlab(cfg, 1))
            > cfg.Blocks4KBPerSlab * k4KiloBytes
       THEN status = "rejected"
       ELSE status = "running" /\ SlabCapacity(cfg) >= 1

\* C15: destroying the allocator unmaps every slab that is in either list,
\* whatever its live count: when the destructor returns both lists are
\* empty, no slab object is left and none of the blocks the slabs were
\* mapped at is still mapped.
C15_DestructorUnmapsEverySlab ==
  [][last'.op = "Destroy"
       => /\ slabs_non_full_' = EmptyList
          /\ slabs_full_' = EmptyList
          /\ heap' = << >>
          /\ \A s \in DOMAIN heap : SlabBlocks(s) \cap mapped' = {}]_vars

\* C16: every pointer returned by Allocate is a multiple of ElementAlign,
\* for every accepted element alignment and every slot index, given that
\* the slab's base address is aligned to a 4KB block.
C16_ReturnedPointersAreAligned ==
  (\A s \in DOMAIN heap : s % k4KiloBytes = 0)
    => /\ \A p \in DOMAIN live : p % cfg.ElementAlign = 0
       /\ last.ptr % cfg.ElementAlign = 0

\* An element whose size is not a multiple of its alignment was returned
\* from a slot other than the slab's first one.
C16_Witness ==
  /\ last.op = "Allocate"
  /\ last.ptr # Null
  /\ last.ptr # SlotAddr(cfg, last.slab, 0)
  /\ last.ptr \in DOMAIN live
  /\ cfg.ElementAlign = WordBytes
  /\ cfg.ElementSize % cfg.ElementAlign # 0
  /\ cfg.ElementSize > cfg.ElementAlign

\* C17: in every slab the live count plus the length of the free-slot
\* chain is SlabCapacity; the chain starts at next_free_slot_, runs over
\* slots of the slab, ends in null, holds no slot twice and holds no slot
\* that is live.
C17_SlabFreeListInvariant ==
  \A s \in DOMAIN heap :
    LET sl == heap[s]
        fl == FreeList(sl)
    IN  /\ sl.size_ + Len(fl) = SlabCapacity(cfg)
        /\ sl.size_ = Cardinality({ p \in DOMAIN live : live[p] = s })
        /\ Len(fl) = 0 => sl.next_free_slot_ = Null
        /\ \A i \in 1 .. Len(fl) :
             /\ fl[i] \in SlotAddrs(cfg, s)
             /\ sl.slots_[fl[i]] = IF i < Len(fl) THEN fl[i + 1] ELSE Null
             /\ \A j \in 1 .. Len(fl) : i # j => fl[i] # fl[j]
             /\ fl[i] \notin DOMAIN live

\* A slab some of whose slots are live and the head of whose chain was
\* put there by Free.
C17_Witness ==
  /\ last.op = "Free"
  /\ last.slab \in DOMAIN heap
  /\ heap[last.slab].size_ >= 1
  /\ heap[last.slab].next_free_slot_ = last.ptr
  /\ Len(FreeList(heap[last.slab])) >= 1

\* C18: a slab's free list is last-in first-out.  A Free(p) that leaves the
\* slab in place makes p the slot the slab's next Allocate() returns; an
\* Allocate() served by an existing slab returns the slot that was at the
\* head; and no step other than a Free to or an Allocate from a slab
\* changes that slab's head.
C18_FreeListIsLifo ==
  [][/\ (last'.op = "Free" /\ last'.deleted = Null /\ status' = "running")
          => /\ last'.slab \in DOMAIN heap'
             /\ heap'[last'.slab].next_free_slot_ = last'.ptr
             /\ SlabAllocate(heap'[last'.slab]).slot = last'.ptr
     /\ (last'.op = "Allocate" /\ last'.ptr # Null /\ last'.slab \in DOMAIN heap)
          => last'.ptr = heap[last'.slab].next_free_slot_
     /\ \A s \in DOMAIN heap \cap DOMAIN heap' :
          (last'.op \in {"Allocate", "Free"} /\ last'.slab # s)
            => heap'[s].next_free_slot_ = heap[s].next_free_slot_]_vars

\* Free has put a slot in front of another free slot of the same slab.
C18_Witness ==
  /\ last.op = "Free"
  /\ last.deleted = Null
  /\ last.slab \in DOMAIN heap
  /\ Len(FreeList(heap[last.slab])) >= 2
  /\ FreeList(heap[last.slab])[1] = last.ptr

\* What C19 asks of one list, given the sequence sq of nodes reached from
\* its front_.
C19_WellLinked(list, sq) ==
  /\ Len(sq) <= Cardinality(DOMAIN heap)
  /\ \A i, j \in 1 .. Len(sq) : i # j => sq[i] # sq[j]
  /\ list.size_ = Len(sq)
  /\ list.front_ = IF sq = << >> THEN Null ELSE sq[1]
  /\ sq # << >> => heap[sq[1]].prev = Null /\ heap[sq[Len(sq)]].next = Null
  /\ \A i \in 1 .. Len(sq) - 1 :
       heap[sq[i]].next = sq[i + 1] /\ heap[sq[i + 1]].prev = sq[i]

\* C19: under any calls of PushFront, PopFront and Erase that respect the
\* preconditions, each list is an acyclic chain from front_ that ends in
\* null, size_ is the number of nodes on it, the front node's prev is null,
\* n.next = m implies m.prev = n for the linked nodes, and no node is in
\* two lists.
C19_IntrusiveListInvariant ==
  /\ C19_WellLinked(slabs_non_full_, NonFullSeq)
  /\ C19_WellLinked(slabs_full_, FullSeq)
  /\ \A i \in 1 .. Len(NonFullSeq) : \A j \in 1 .. Len(FullSeq) :
       NonFullSeq[i] # FullSeq[j]

\* Erase has taken a node that had a predecessor out of a list, and both
\* lists still hold nodes.
C19_Witness ==
  /\ last.op = "Erase"
  /\ Len(NonFullSeq) + Len(FullSeq) >= 2
  /\ NonFullSeq # << >>
  /\ FullSeq # << >>
  /\ heap[last.node].prev # Null

\* The list the step's call was made on, before and after the step, as
\* sequences.
C20_Before == ListSeq(ListNamed(last'.list), heap)

C20_After ==
  ListSeq(IF last'.list = "slabs_non_full_" THEN slabs_non_full_' ELSE slabs_full_',
          heap')

\* C20: the list refines a sequence.  PushFront(e) yields e followed by the
\* old elements in their order, PopFront yields the old elements without
\* the first, and after either call Size() is the length, Empty() holds iff
\* the length is 0 and Front() is the first element.
C20_ListRefinesSequence ==
  [][(last'.op \in {"PushFront", "PopFront"})
       => /\ last'.op = "PushFront" => C20_After = << last'.node >> \o C20_Before
          /\ last'.op = "PopFront" => C20_After = Tail(C20_Before)
          /\ Size(slabs_non_full_') = Len(ListSeq(slabs_non_full_', heap'))
          /\ Size(slabs_full_') = Len(ListSeq(slabs_full_', heap'))
          /\ Empty(slabs_non_full_') <=> ListSeq(slabs_non_full_', heap') = << >>
          /\ Empty(slabs_full_') <=> ListSeq(slabs_full_', heap') = << >>
          /\ C20_After # << >>
               => Front(IF last'.list = "slabs_non_full_"
                          THEN slabs_non_full_' ELSE slabs_full_') = C20_After[1]]_vars

\* PopFront has taken the first node off a list that keeps two more.
C20_Witness ==
  /\ last.op = "PopFront"
  /\ Len(ListSeq(ListNamed(last.list), heap)) >= 2
  /\ heap[last.node].next = ListSeq(ListNamed(last.list), heap)[1]

\* C21: Erase(e), for e linked into list L at any position, yields L
\* without e, the other elements in their order, and size_ one less; the
\* other list instance keeps its header and its elements.
C21_EraseRemovesExactlyTheNode ==
  [][last'.op = "Erase"
       => LET before == ListSeq(ListNamed(last'.list), heap)
              lafter == IF last'.list = "slabs_non_full_"
                          THEN slabs_non_full_' ELSE slabs_full_'
              other  == IF last'.list = "slabs_non_full_"
                          THEN slabs_full_ ELSE slabs_non_full_
              oafter == IF last'.list = "slabs_non_full_"
                          THEN slabs_full_' ELSE slabs_non_full_'
          IN  /\ ListSeq(lafter, heap') =
                   SelectSeq(before, LAMBDA n : n # last'.node)
              /\ Len(ListSeq(lafter, heap')) = Len(before) - 1
              /\ lafter.size_ = ListNamed(last'.list).size_ - 1
              /\ lafter.size_ = Len(before) - 1
              /\ oafter = other
              /\ ListSeq(oafter, heap') = ListSeq(other, heap)]_vars

\* Erase has taken the middle one of three nodes out of a list: the erased
\* node still names its old neighbours, which are now linked to each other.
C21_Witness ==
  /\ last.op = "Erase"
  /\ heap[last.node].prev # Null
  /\ heap[last.node].next # Null
  /\ ListSeq(ListNamed(last.list), heap)
       = << heap[last.node].prev, heap[last.node].next >>

\* C22: PopFront on an empty list is caught by a fail-fast check: the
\* process halts there, front_ is not read through and size_ is not
\* decremented below 0.
C22_PopFrontOnEmptyHalts ==
  [][last'.op = "PopFrontEmpty"
       => /\ status' = "halted"
          /\ slabs_non_full_' = slabs_non_full_
          /\ slabs_full_' = slabs_full_]_vars

\* C23: for a registry with the valid scope and well-formed, non-empty
\* range lists (no range inverted, no two ranges of a list sharing a field
\* number), ValidateRegistry accepts the range layout iff the allocation
\* ranges are pairwise disjoint and cover exactly the field numbers the
\* registry ranges cover; overlapping allocations are rejected with a
\* message containing "overlap", and a gap or an allocation outside the
\* registry ranges with a message containing "gap or overlap".
C23_LayoutAcceptedIffExactTiling ==
  LET Fields(r) == r.first .. r.second
      Covered(ranges) == UNION { Fields(ranges[i]) : i \in 1 .. Len(ranges) }
      WellFormed(ranges) ==
        /\ ranges # << >>
        /\ \A i \in 1 .. Len(ranges) : ranges[i].first <= ranges[i].second
        /\ \A i, k \in 1 .. Len(ranges) :
             i # k => Fields(ranges[i]) \cap Fields(ranges[k]) = {}
      ids == UNION { { << i, k >> : k \in 1 .. Len(reg.allocations[i].ranges) } :
                       i \in 1 .. Len(reg.allocations) }
      AllocRange(p) == reg.allocations[p[1]].ranges[p[2]]
      disjoint == \A p, q \in ids :
                    p # q => Fields(AllocRange(p)) \cap Fields(AllocRange(q)) = {}
      covered == UNION { Fields(AllocRange(p)) : p \in ids }
  IN
  (/\ last.op = "ValidateRegistry"
   /\ reg.scope = "perfetto.protos.TrackEvent"
   /\ WellFormed(reg.ranges)
   /\ reg.allocations # << >>
   /\ \A i \in 1 .. Len(reg.allocations) :
        WellFormed(reg.allocations[i].ranges))
    => /\ (last.status \in {OkStatus, Err.UnallocatedHasPath, Err.NeitherPath,
                            Err.BothPaths})
            <=> (disjoint /\ covered = Covered(reg.ranges))
       /\ ~disjoint
            => HasSubstr(last.status, <<"o", "v", "e", "r", "l", "a", "p">>)
       /\ (disjoint /\ covered # Covered(reg.ranges))
            => HasSubstr(last.status,
                         <<"g", "a", "p", " ", "o", "r", " ",
                           "o", "v", "e", "r", "l", "a", "p">>)

\* A registry of two ranges that are apart, tiled by two allocations, was
\* validated and accepted.
C23_Witness ==
  /\ last.op = "ValidateRegistry"
  /\ last.status = OkStatus
  /\ Len(reg.ranges) = 2
  /\ Len(MergeAdjacentRanges(SortRanges(reg.ranges))) = 2
  /\ Len(reg.allocations) = 2

\* C24: for local allocations (repo empty) ValidateRegistry accepts an
\* allocation named "unallocated" only if its proto and registry are both
\* empty, and any other allocation only if exactly one of proto and
\* registry is set.
C24_LocalEntriesHaveExactlyOnePath ==
  (last.op = "ValidateRegistry" /\ last.status = OkStatus)
    => \A i \in 1 .. Len(reg.allocations) :
         LET alloc == reg.allocations[i]
         IN  alloc.repo = ""
               => IF alloc.name = "unallocated"
                    THEN alloc.proto = "" /\ alloc.registry = ""
                    ELSE (alloc.proto # "") # (alloc.registry # "")

\* An accepted registry with a local "unallocated" entry and a local entry
\* that names a sub-registry and no proto.
C24_Witness ==
  /\ last.op = "ValidateRegistry"
  /\ last.status = OkStatus
  /\ \E i, j \in 1 .. Len(reg.allocations) :
       /\ reg.allocations[i].repo = ""
       /\ reg.allocations[i].name = "unallocated"
       /\ reg.allocations[j].repo = ""
       /\ reg.allocations[j].name # "unallocated"
       /\ reg.allocations[j].registry # ""

\* C25: ValidateRegistry does not validate the proto and registry fields
\* of remote allocations: a registry whose allocations all have a repo
\* passes the proto/registry checks whether those fields are both empty,
\* one set or both set.
C25_RemoteEntriesAreNotValidated ==
  (/\ last.op = "ValidateRegistry"
   /\ \A i \in 1 .. Len(reg.allocations) : reg.allocations[i].repo # "")
    => last.status \notin {Err.UnallocatedHasPath, Err.NeitherPath, Err.BothPaths}

\* C26: best fit.  For every size, GetOrCreateScratchRegisters(size) returns
\* the registers of a slot that is not in use and whose size is the least
\* among the not-in-use slots of size >= the request; only when there is no
\* such slot does it allocate two registers and append a slot.
C26_BestFitScratch ==
  [][last'.op = "GetOrCreateScratchRegisters"
       => LET fit == { k \in 1 .. Len(scratch_slots_) :
                         /\ ~scratch_slots_[k].in_use
                         /\ scratch_slots_[k].size >= last'.size }
          IN  IF fit # {}
                THEN /\ register_count_' = register_count_
                     /\ scratch_slots_' = scratch_slots_
                     /\ \E k \in fit :
                          /\ scratch_slots_[k].slab = last'.regs.slab
                          /\ scratch_slots_[k].span = last'.regs.span
                          /\ \A j \in fit :
                               scratch_slots_[k].size <= scratch_slots_[j].size
                ELSE /\ register_count_' = register_count_ + 2
                     /\ Len(scratch_slots_') = Len(scratch_slots_) + 1
                     /\ last'.regs.slab = register_count_
                     /\ last'.regs.span = register_count_ + 1]_vars

\* C27: AllocateScratch never returns the registers of a slot that is in
\* use.  The slab register it returns belongs to no slot that was in use,
\* the slot is in use afterwards and stays in use until ReleaseScratch is
\* called with its registers, so two results not yet released differ in
\* their slab registers; and when it returns the registers of a slot that
\* existed already (a released one), register_count is not increased.
C27_ScratchInUseIsNotHandedOut ==
  [][/\ (last'.op = "AllocateScratch" /\ status' = "running")
          => /\ \A k \in 1 .. Len(scratch_slots_) :
                  scratch_slots_[k].slab = last'.regs.slab
                    => /\ ~scratch_slots_[k].in_use
                       /\ register_count_' = register_count_
             /\ \E k \in 1 .. Len(scratch_slots_') :
                  /\ scratch_slots_'[k].slab = last'.regs.slab
                  /\ scratch_slots_'[k].span = last'.regs.span
                  /\ scratch_slots_'[k].in_use
     /\ \A k \in 1 .. Len(scratch_slots_) :
          (/\ scratch_slots_[k].in_use
           /\ ~(last'.op = "ReleaseScratch"
                /\ last'.regs.slab = scratch_slots_[k].slab))
            => /\ k <= Len(scratch_slots_')
               /\ scratch_slots_'[k].slab = scratch_slots_[k].slab
               /\ scratch_slots_'[k].in_use]_vars

\* AllocateScratch has handed out the registers of a released slot again:
\* two opcodes were emitted and there is still one slot and two registers.
C27_Witness ==
  /\ last.op = "AllocateScratch"
  /\ Len(bytecode_) >= 2
  /\ register_count_ = 2
  /\ Len(scratch_slots_) = 1
  /\ scratch_slots_[1].in_use
  /\ last.regs.slab = scratch_slots_[1].slab

\* ------------------------------------------------------------------------
\* dataframe::DataframeRegisterCache (dataframe_register_cache.h)
\*
\* cache_ is the sequence of the map's entries, each a key (reg_type, ptr)
\* with the register index stored for it; builder_ is the builder above.
\* ------------------------------------------------------------------------

\* cache_.Find(key): the position of the entry with the key, compared by
\* CacheKey::operator==, or Nullopt.
CacheFind(cache, key) ==
  LET found == { k \in 1 .. Len(cache) :
                   /\ cache[k].key.reg_type = key.reg_type
                   /\ cache[k].key.ptr = key.ptr }
  IN  IF found = {} THEN Nullopt ELSE CHOOSE k \in found : TRUE

\* GetOrAllocate() that forgets to store the register it allocated.
GetOrAllocate_NotStored(b, cache, reg_type, ptr) ==
  LET key == [reg_type |-> reg_type, ptr |-> ptr]
      it == CacheFind(cache, key)
  IN  IF it # Nullopt
        THEN [b |-> b, cache |-> cache, reg |-> cache[it].index,
              inserted |-> FALSE]
        ELSE LET r == AllocateRegister(b)
             IN  [b |-> r.b, cache |-> cache, reg |-> r.index,
                  inserted |-> TRUE]

\* GetOrAllocate<T>(reg_type, ptr).
GetOrAllocate(b, cache, reg_type, ptr) ==
  LET key == [reg_type |-> reg_type, ptr |-> ptr]
      it == CacheFind(cache, key)
  IN  IF it # Nullopt
        THEN [b |-> b, cache |-> cache, reg |-> cache[it].index,
              inserted |-> FALSE]
        ELSE LET r == AllocateRegister(b)
             IN  [b |-> r.b,
                  cache |-> Append(cache, [key |-> key, index |-> r.index]),
                  reg |-> r.index, inserted |-> TRUE]

\* A cache constructed on a default-constructed builder.
InitCache ==
  /\ AllocatorIdle
  /\ ToolsInit
  /\ last = [op |-> "none", key |-> [reg_type |-> 0, ptr |-> 0], reg |-> 0,
             inserted |-> FALSE]

\* Callers use two register types and two addresses as keys.
CallGetOrAllocate ==
  /\ status = "running"
  /\ register_count_ < MaxRegisters
  /\ \E reg_type \in {0, 1}, ptr \in {1, 2} :
       \E g \in {GetOrAllocate(Builder, cache_, reg_type, ptr)} :
         /\ BuilderBecomes(g.b)
         /\ cache_' = g.cache
         /\ last' = [op |-> "GetOrAllocate",
                     key |-> [reg_type |-> reg_type, ptr |-> ptr],
                     reg |-> g.reg, inserted |-> g.inserted]
  /\ UNCHANGED << allocVars, engineVars, reg, status >>

\* Clear(): cache_.Clear().
CallClear ==
  /\ status = "running"
  /\ cache_' = <<>>
  /\ last' = [op |-> "Clear", key |-> [reg_type |-> 0, ptr |-> 0], reg |-> 0,
              inserted |-> FALSE]
  /\ UNCHANGED << allocVars, engineVars, reg, status, register_count_, scratch_slots_,
                  bytecode_ >>

\* Another user of the same builder allocates a register.
CallAllocateRegister ==
  /\ status = "running"
  /\ register_count_ < MaxRegisters
  /\ \E r \in {AllocateRegister(Builder)} :
       /\ BuilderBecomes(r.b)
       /\ last' = [op |-> "AllocateRegister",
                   key |-> [reg_type |-> 0, ptr |-> 0], reg |-> r.index,
                   inserted |-> FALSE]
  /\ UNCHANGED << allocVars, engineVars, reg, status, cache_ >>

SpecCache ==
  InitCache /\ [][CallGetOrAllocate \/ CallClear \/ CallAllocateRegister]_vars

\* C28: GetOrAllocate is idempotent per key.  A call for a key that is not
\* in the cache (the first since the last Clear) allocates exactly one
\* register, whose index is the builder's register count before the call and
\* so differs from every register allocated before, and returns inserted;
\* a call for a key that is in the cache returns the stored index, not
\* inserted, and allocates nothing.  Entries stay as they are until Clear,
\* which removes them all.
C28_GetOrAllocateIsIdempotentPerKey ==
  [][/\ last'.op = "GetOrAllocate"
          => LET hit == { k \in 1 .. Len(cache_) : cache_[k].key = last'.key }
             IN  IF hit = {}
                   THEN /\ last'.inserted
                        /\ last'.reg = register_count_
                        /\ register_count_' = register_count_ + 1
                        /\ \A k \in 1 .. Len(cache_) :
                             cache_[k].index # last'.reg
                        /\ \E k \in 1 .. Len(cache_') :
                             /\ cache_'[k].key = last'.key
                             /\ cache_'[k].index = last'.reg
                   ELSE /\ ~last'.inserted
                        /\ \A k \in hit : cache_[k].index = last'.reg
                        /\ register_count_' = register_count_
                        /\ cache_' = cache_
     /\ last'.op # "Clear"
          => \A k \in 1 .. Len(cache_) :
               \E j \in 1 .. Len(cache_') : cache_'[j] = cache_[k]
     /\ last'.op = "Clear" => cache_' = <<>>
     /\ \A k \in 1 .. Len(cache_') :
          /\ cache_'[k].index < register_count_'
          /\ \A j \in 1 .. Len(cache_') :
               cache_'[j].key = cache_'[k].key => j = k]_vars

\* A key that got a register after two others were allocated, and after
\* which yet another register was allocated, was asked for again: the call
\* returned the stored register and allocated nothing.
C28_Witness ==
  /\ last.op = "GetOrAllocate"
  /\ ~last.inserted
  /\ last.reg >= 2
  /\ Len(cache_) = 1
  /\ register_count_ > last.reg + 1

\* C29: Allocate maps a new slab only when the non-full list is empty.  An
\* Allocate call makes an mmap call exactly when it started with an empty
\* non-full list, and then memory is mapped only if the call succeeded;
\* Free makes none; so the mmap calls of a run of Allocate and Free are as
\* many as its Allocate calls that started with an empty non-full list.
C29_MapsOnlyWhenNoNonFullSlab ==
  [][/\ last'.op = "Allocate"
          => /\ (last'.mmap # "none") <=> Empty(slabs_non_full_)
             /\ (last'.mmap = "ok") <=> (mapped' \ mapped # {})
             /\ (last'.mmap = "ok")
                  <=> (Cardinality(DOMAIN heap') = Cardinality(DOMAIN heap) + 1)
     /\ last'.op = "Free"
          => /\ last'.mmap = "none"
             /\ mapped' \subseteq mapped
             /\ DOMAIN heap' \subseteq DOMAIN heap]_vars

\* Both cases have happened: an Allocate call has just mapped a slab next to
\* a full one, after earlier calls were served without mapping.
C29_Witness ==
  /\ last.op = "Allocate"
  /\ last.mmap = "ok"
  /\ Size(slabs_full_) >= 1
  /\ Cardinality(DOMAIN heap) >= 2
  /\ Cardinality(DOMAIN live) > Cardinality(DOMAIN heap)

\* C30: at most one mapped slab has live count 0.
C30_AtMostOneEmptySlab ==
  Cardinality({ s \in DOMAIN heap : IsEmpty(heap[s]) }) <= 1

\* An empty slab is kept, as the sole non-full slab, next to a full one.
C30_Witness ==
  /\ last.op = "Free"
  /\ status = "running"
  /\ Size(slabs_full_) >= 1
  /\ \E s \in DOMAIN heap : IsEmpty(heap[s])

\* ------------------------------------------------------------------------
\* Alternating traffic for a single live object: any accepted instantiation,
\* Allocate only while no element is live, Free of the live element.
\* ------------------------------------------------------------------------

AllocateSingle ==
  /\ DOMAIN live = {}
  /\ Allocate

SpecAlternate ==
  InitLayout /\ [][Instantiate \/ AllocateSingle \/ Free \/ Destroy]_vars

\* C31: no thrashing.  With at most one element live at a time, mmap is
\* called by the Allocate that finds no slab and by no Allocate after a slab
\* exists, and no Free unmaps or destroys a slab: the one slab stays mapped
\* until the allocator is destroyed.
C31_NoThrashing ==
  [][/\ last'.op = "Allocate"
          => /\ (last'.mmap # "none") <=> (DOMAIN heap = {})
             /\ Cardinality(DOMAIN heap') <= 1
     /\ last'.op = "Free"
          => /\ last'.deleted = Null
             /\ last'.mmap = "none"
             /\ mapped' = mapped
             /\ DOMAIN heap' = DOMAIN heap
             /\ block_4KB_aligned_to_slab_' = block_4KB_aligned_to_slab_]_vars

\* A later Allocate of an alternation: an element was allocated and freed
\* before, and the call is served by the retained slab without mmap.
C31_Witness ==
  /\ last.op = "Allocate"
  /\ last.mmap = "none"
  /\ last.ptr # Null
  /\ Cardinality(DOMAIN heap) = 1
  /\ Cardinality(DOMAIN live) = 1
  /\ \A s \in DOMAIN heap : heap[s].size_ = 1

\* C32: every slab of the non-full list has a non-null next_free_slot_, so
\* the slab Allocate takes from the front of that list has a free slot:
\* Slab::Allocate is not invoked on a full slab, and no Allocate call ends
\* in the failure of PERFETTO_DCHECK(next_free_slot_) or
\* PERFETTO_CHECK(allocated).
C32_FrontNonFullSlabHasFreeSlot ==
  /\ \A k \in 1 .. Len(NonFullSeq) :
       /\ heap[NonFullSeq[k]].next_free_slot_ # Null
       /\ ~IsFull(cfg, heap[NonFullSeq[k]])
  /\ last.op = "Allocate" => status = "running"
  /\ (last.op = "Allocate" /\ last.slab # Null) => last.ptr # Null

\* Allocate has just taken a slot from a slab that was non-full before,
\* while another slab is full.
C32_Witness ==
  /\ last.op = "Allocate"
  /\ last.mmap = "none"
  /\ last.ptr # Null
  /\ Size(slabs_full_) >= 1
  /\ Size(slabs_non_full_) >= 1
  /\ last.slab = Front(slabs_non_full_)

\* C33: a freshly constructed slab has live count 0 and its free list is
\* slot 0, slot 1, ..., the last slot, in index order.  With no Free in
\* between, the k-th allocation from a slab (k counted from 0) returns slot
\* k and leaves the slots k+1, ..., SlabCapacity-1 on the free list in that
\* order; for the allocation that mapped the slab k is 0.
C33_FreshSlabHandsOutSlotsInOrder ==
  [][(last'.op = "Allocate" /\ last'.ptr # Null)
       => LET slab == last'.slab
              k == IF slab \in DOMAIN heap THEN heap[slab].size_ ELSE 0
          IN  /\ (last'.mmap = "ok") <=> (slab \notin DOMAIN heap)
              /\ last'.ptr = SlotAddr(cfg, slab, k)
              /\ heap'[slab].size_ = k + 1
              /\ FreeList(heap'[slab])
                   = [ i \in 1 .. (SlabCapacity(cfg) - k - 1) |->
                         SlotAddr(cfg, slab, k + i) ]]_vars

\* A slab of at least three slots has just handed out its last slot.
C33_Witness ==
  /\ last.op = "Allocate"
  /\ SlabCapacity(cfg) >= 3
  /\ last.ptr = SlotAddr(cfg, last.slab, SlabCapacity(cfg) - 1)
  /\ last.slab \in DOMAIN heap
  /\ heap[last.slab].next_free_slot_ = Null

\* C34: for every accepted configuration the footprint of one slab,
\* sizeof(SlabType), is at most Blocks4KBPerSlab * 4KB, so every slab has at
\* most Blocks4KBPerSlab entries in the address index.
C34_SlabFitsItsBudget ==
  status = "running"
    => /\ SizeofSlab(cfg, SlabCapacity(cfg)) <= cfg.Blocks4KBPerSlab * k4KiloBytes
       /\ \A slab \in DOMAIN heap :
            Cardinality({ p \in DOMAIN block_4KB_aligned_to_slab_ :
                            block_4KB_aligned_to_slab_[p] = slab })
              <= cfg.Blocks4KBPerSlab

\* C35: Free(p) on a full slab moves the slab to the front of the non-full
\* list and makes p the head of its free list, and an Allocate issued
\* immediately after that Free returns p again and maps no new slab.
C35_FreedSlotOfFullSlabIsReused ==
  [][/\ (/\ last'.op = "Free"
         /\ status' = "running"
         /\ last'.slab \in DOMAIN heap
         /\ IsFull(cfg, heap[last'.slab]))
          => /\ Front(slabs_non_full_') = last'.slab
             /\ last'.slab \in DOMAIN heap'
             /\ heap'[last'.slab].next_free_slot_ = last'.ptr
     /\ (/\ last.op = "Free"
         /\ last.slab \in DOMAIN heap
         /\ heap[last.slab].size_ = SlabCapacity(cfg) - 1
         /\ last'.op = "Allocate")
          => /\ last'.ptr = last.ptr
             /\ last'.slab = last.slab
             /\ last'.mmap = "none"
             /\ mapped' = mapped]_vars

\* Free has just been called on a full slab while another slab was on the
\* non-full list: the slab is now in front of that one, with the freed slot
\* at the head of its free list, and the next Allocate will take it.
C35_Witness ==
  /\ last.op = "Free"
  /\ status = "running"
  /\ last.slab \in DOMAIN heap
  /\ heap[last.slab].size_ = SlabCapacity(cfg) - 1
  /\ Size(slabs_non_full_) = 2
  /\ Front(slabs_non_full_) = last.slab
  /\ heap[last.slab].next_free_slot_ = last.ptr

\* C36: frame effects.  A successful Allocate raises the live count of the
\* slab it took the slot from by one (from 0 for a slab it created) and a
\* Free lowers the live count of the pointer's slab by one (or destroys the
\* slab it emptied); every other slab keeps its live count and its free
\* list and is not destroyed.  An Allocate that creates no slab and a Free that
\* destroys no slab leave the address index unchanged.
C36_FrameEffects ==
  [][/\ (last'.op = "Allocate" /\ last'.ptr # Null)
          => /\ heap'[last'.slab].size_
                  = (IF last'.slab \in DOMAIN heap
                       THEN heap[last'.slab].size_ ELSE 0) + 1
             /\ DOMAIN heap' = DOMAIN heap \cup {last'.slab}
     /\ (last'.op = "Free" /\ status' = "running")
          => /\ last'.slab \in DOMAIN heap
             /\ IF last'.deleted = Null
                  THEN /\ DOMAIN heap' = DOMAIN heap
                       /\ heap'[last'.slab].size_ = heap[last'.slab].size_ - 1
                  ELSE /\ last'.deleted = last'.slab
                       /\ DOMAIN heap' = DOMAIN heap \ {last'.slab}
                       /\ heap[last'.slab].size_ = 1
     /\ (last'.op \in {"Allocate", "Free"} /\ status' = "running")
          => \A s \in DOMAIN heap \ {last'.slab} :
               /\ s \in DOMAIN heap'
               /\ heap'[s].size_ = heap[s].size_
               /\ heap'[s].next_free_slot_ = heap[s].next_free_slot_
               /\ heap'[s].slots_ = heap[s].slots_
     /\ (\/ last'.op = "Allocate" /\ last'.mmap # "ok"
         \/ last'.op = "Free" /\ status' = "running" /\ last'.deleted = Null)
          => block_4KB_aligned_to_slab_' = block_4KB_aligned_to_slab_]_vars

\* A Free that destroyed no slab, with a second slab present.
C36_Witness ==
  /\ last.op = "Free"
  /\ status = "running"
  /\ last.deleted = Null
  /\ Cardinality(DOMAIN heap) >= 2
  /\ \E s \in DOMAIN heap : s # last.slab /\ heap[s].size_ >= 1

\* ------------------------------------------------------------------------
\* DataframeStorageModule (dataframe_storage_module.h)
\*
\* tagged_dataframes is the vector of Context: entries [df_variant, name,
\* savepoint_version, is_deleted]; savepoint_version is the field of Vtab
\* and idx the field of Cursor.  An entry is referred to by its position,
\* Nullopt standing for the null pointer.
\* ------------------------------------------------------------------------

\* Context::GetMaxVersionDataframe(name): the loop from entry i on, `it`
\* being the entry found so far.  In a build with PERFETTO_DCHECK the check
\* on duplicates can fire.
RECURSIVE GetMaxVersionDataframe(_, _, _, _, _)
GetMaxVersionDataframe(dfs, name, i, it, dchecks) ==
  IF i > Len(dfs) THEN [it |-> it, outcome |-> "ok"]
  ELSE IF dfs[i].name # name
    THEN GetMaxVersionDataframe(dfs, name, i + 1, it, dchecks)
  ELSE IF dchecks /\ it # Nullopt
            /\ dfs[i].savepoint_version = dfs[it].savepoint_version
    THEN [it |-> it, outcome |-> "halted"]
  ELSE IF it = Nullopt \/ dfs[i].savepoint_version > dfs[it].savepoint_version
    THEN GetMaxVersionDataframe(dfs, name, i + 1, i, dchecks)
    ELSE GetMaxVersionDataframe(dfs, name, i + 1, it, dchecks)

\* Update() whose INSERT always adds a new entry.
Update_AlwaysAppend(dfs, version, kind, name, df, dchecks) ==
  LET g == GetMaxVersionDataframe(dfs, name, 1, Nullopt, dchecks)
      it == g.it
      entry == [df_variant |-> df, name |-> name,
                savepoint_version |-> version, is_deleted |-> FALSE]
  IN  CASE kind = "UPDATE" ->
             [dfs |-> dfs, rc |-> "SQLITE_ERROR", outcome |-> "ok",
              error |-> "update is not supported"]
        [] kind # "UPDATE" /\ g.outcome # "ok" ->
             [dfs |-> dfs, rc |-> "none", outcome |-> g.outcome,
              error |-> ""]
        [] kind = "DELETE" /\ g.outcome = "ok" ->
             IF it = Nullopt \/ dfs[it].is_deleted
               THEN [dfs |-> dfs, rc |-> "SQLITE_ERROR", outcome |-> "ok",
                     error |-> "no such dataframe %s"]
               ELSE [dfs |-> [dfs EXCEPT ![it].is_deleted = TRUE],
                     rc |-> "SQLITE_OK", outcome |-> "ok", error |-> ""]
        [] kind = "INSERT" /\ g.outcome = "ok" ->
             IF it # Nullopt /\ ~dfs[it].is_deleted
               THEN [dfs |-> dfs, rc |-> "SQLITE_ERROR", outcome |-> "ok",
                     error |-> "dataframe already exists %s"]
               ELSE [dfs |-> Append(dfs, entry),
                     rc |-> "SQLITE_OK", outcome |-> "ok", error |-> ""]

\* Update(): kind is "DELETE" for argc == 1, "INSERT" for a null argv[0] and
\* "UPDATE" otherwise; name and df are the name and the DATAFRAME_VARIANT
\* pointer among the arguments; version is the vtab's savepoint_version.
Update(dfs, version, kind, name, df, dchecks) ==
  LET g == GetMaxVersionDataframe(dfs, name, 1, Nullopt, dchecks)
      it == g.it
      entry == [df_variant |-> df, name |-> name,
                savepoint_version |-> version, is_deleted |-> FALSE]
  IN  CASE kind = "UPDATE" ->
             [dfs |-> dfs, rc |-> "SQLITE_ERROR", outcome |-> "ok",
              error |-> "update is not supported"]
        [] kind # "UPDATE" /\ g.outcome # "ok" ->
             [dfs |-> dfs, rc |-> "none", outcome |-> g.outcome,
              error |-> ""]
        [] kind = "DELETE" /\ g.outcome = "ok" ->
             IF it = Nullopt \/ dfs[it].is_deleted
               THEN [dfs |-> dfs, rc |-> "SQLITE_ERROR", outcome |-> "ok",
                     error |-> "no such dataframe %s"]
               ELSE [dfs |-> [dfs EXCEPT ![it].is_deleted = TRUE],
                     rc |-> "SQLITE_OK", outcome |-> "ok", error |-> ""]
        [] kind = "INSERT" /\ g.outcome = "ok" ->
             IF it # Nullopt /\ ~dfs[it].is_deleted
               THEN [dfs |-> dfs, rc |-> "SQLITE_ERROR", outcome |-> "ok",
                     error |-> "dataframe already exists %s"]
               ELSE [dfs |-> IF it # Nullopt
                                  /\ dfs[it].savepoint_version = version
                               THEN [dfs EXCEPT ![it] = entry]
                               ELSE Append(dfs, entry),
                     rc |-> "SQLITE_OK", outcome |-> "ok", error |-> ""]

\* Filter(): idx = 0.
Filter(dfs, i) == 0

\* Next(): skips the deleted entries from idx on.
RECURSIVE CursorNext(_, _)
CursorNext(dfs, i) ==
  IF i < Len(dfs) /\ dfs[i + 1].is_deleted
    THEN CursorNext(dfs, (i + 1) % (Uint32Max + 1))
    ELSE i

\* Eof(): idx == tagged_dataframes.size().
Eof(dfs, i) == i = Len(dfs)

\* An empty table, created and opened with one cursor.
InitStorage ==
  /\ AllocatorIdle
  /\ ToolsInit
  /\ last = [op |-> "none", kind |-> "none", name |-> "", rc |-> "SQLITE_OK",
             error |-> ""]

\* A scan is under way: SQLite has called Filter and has not yet seen Eof.
Scanning == last.op \in {"Filter", "Next"} /\ ~Eof(tagged_dataframes, idx)

\* SQLite calls xUpdate for an INSERT, DELETE or UPDATE statement; dchecks
\* is the build flavour.
CallUpdate ==
  /\ status = "running"
  /\ ~Scanning
  /\ \E kind \in {"INSERT", "DELETE", "UPDATE"}, name \in {"a", "b"},
        df \in {1, 2}, dchecks \in BOOLEAN :
       /\ (kind # "INSERT") => (df = 1)
       /\ (kind = "INSERT") => (Len(tagged_dataframes) < MaxDataframes)
       /\ \E u \in {Update(tagged_dataframes, savepoint_version, kind, name,
                           df, dchecks)} :
            /\ tagged_dataframes' = u.dfs
            /\ status' = IF u.outcome = "ok" THEN "running" ELSE u.outcome
            /\ last' = [op |-> "Update", kind |-> kind, name |-> name,
                        rc |-> u.rc, error |-> u.error]
  /\ UNCHANGED << allocVars, toolVars, savepoint_version, idx,
                  producer_id_to_sequence_ids_, sequence_id_to_vms_, vms_,
                  import_logs >>

\* The savepoint_version of the vtab is changed between two calls.
ChangeSavepointVersion ==
  /\ status = "running"
  /\ ~Scanning
  /\ \E v \in 0 .. MaxVersion :
       /\ v # savepoint_version
       /\ savepoint_version' = v
  /\ last' = [op |-> "savepoint", kind |-> "none", name |-> "",
              rc |-> "SQLITE_OK", error |-> ""]
  /\ UNCHANGED << allocVars, toolVars, status, tagged_dataframes, idx,
                  producer_id_to_sequence_ids_, sequence_id_to_vms_, vms_,
                  import_logs >>

\* SQLite starts a scan with xFilter.
CallFilter ==
  /\ status = "running"
  /\ ~Scanning
  /\ idx' = Filter(tagged_dataframes, idx)
  /\ last' = [op |-> "Filter", kind |-> "none", name |-> "",
              rc |-> "SQLITE_OK", error |-> ""]
  /\ UNCHANGED << allocVars, toolVars, status, tagged_dataframes,
                  savepoint_version, producer_id_to_sequence_ids_,
                  sequence_id_to_vms_, vms_, import_logs >>

\* SQLite calls xNext as long as xEof answers false.
CallNext ==
  /\ status = "running"
  /\ Scanning
  /\ idx' = CursorNext(tagged_dataframes, idx)
  /\ last' = [op |-> "Next", kind |-> "none", name |-> "",
              rc |-> "SQLITE_OK", error |-> ""]
  /\ UNCHANGED << allocVars, toolVars, status, tagged_dataframes,
                  savepoint_version, producer_id_to_sequence_ids_,
                  sequence_id_to_vms_, vms_, import_logs >>

NextStorage == CallUpdate \/ ChangeSavepointVersion \/ CallFilter \/ CallNext

SpecStorage == InitStorage /\ [][NextStorage]_vars

\* C37: tagged_dataframes never holds two entries with the same name and the
\* same savepoint_version.
C37_NoDuplicateVersions ==
  \A i, j \in 1 .. Len(tagged_dataframes) :
    (/\ tagged_dataframes[i].name = tagged_dataframes[j].name
     /\ tagged_dataframes[i].savepoint_version
          = tagged_dataframes[j].savepoint_version)
      => i = j

\* C38, as stated: an INSERT for a name whose highest-version entry exists
\* and is not deleted, and a DELETE for a name that has no entry or whose
\* highest-version entry is deleted, return an error and leave
\* tagged_dataframes unchanged; and an INSERT that follows a successful
\* DELETE of the same name, with the vtab's savepoint_version unchanged in
\* between, does not add an entry.
C38_DeleteThenInsertReusesEntry ==
  [][(last'.op = "Update" /\ status' = "running")
       => LET dfs == tagged_dataframes
              named == { i \in 1 .. Len(dfs) : dfs[i].name = last'.name }
              live_top == \E i \in named :
                            /\ ~dfs[i].is_deleted
                            /\ \A j \in named : dfs[j].savepoint_version
                                                  <= dfs[i].savepoint_version
          IN  /\ (last'.kind = "INSERT" /\ live_top)
                   => (last'.rc = "SQLITE_ERROR" /\ tagged_dataframes' = dfs)
              /\ (last'.kind = "DELETE" /\ ~live_top)
                   => (last'.rc = "SQLITE_ERROR" /\ tagged_dataframes' = dfs)
              /\ (/\ last'.kind = "INSERT"
                  /\ last.op = "Update" /\ last.kind = "DELETE"
                  /\ last.rc = "SQLITE_OK" /\ last.name = last'.name)
                   => /\ last'.rc = "SQLITE_OK"
                      /\ Len(tagged_dataframes') = Len(dfs)]_vars

\* C38, amended: the two error cases return an error and leave
\* tagged_dataframes unchanged; a DELETE that succeeds marks the
\* highest-version entry of the name deleted and changes nothing else; an
\* INSERT that succeeds overwrites the highest-version entry of the name if
\* that entry is deleted and carries the vtab's current savepoint_version
\* (the number of entries does not grow), and appends a new entry otherwise,
\* also right after a DELETE of an entry with another savepoint_version.
C38_InsertReusesEntryOfCurrentVersion ==
  [][(last'.op = "Update" /\ status' = "running")
       => LET dfs == tagged_dataframes
              named == { i \in 1 .. Len(dfs) : dfs[i].name = last'.name }
              tops == { i \in named :
                          \A j \in named : dfs[j].savepoint_version
                                             <= dfs[i].savepoint_version }
              live_top == \E i \in tops : ~dfs[i].is_deleted
              reusable == { i \in tops :
                              /\ dfs[i].is_deleted
                              /\ dfs[i].savepoint_version = savepoint_version }
              fresh(e) == /\ e.name = last'.name
                          /\ e.savepoint_version = savepoint_version
                          /\ ~e.is_deleted
          IN  /\ (last'.kind = "INSERT" /\ live_top)
                   => (last'.rc = "SQLITE_ERROR" /\ tagged_dataframes' = dfs)
              /\ (last'.kind = "DELETE" /\ ~live_top)
                   => (last'.rc = "SQLITE_ERROR" /\ tagged_dataframes' = dfs)
              /\ last'.kind = "UPDATE"
                   => (last'.rc = "SQLITE_ERROR" /\ tagged_dataframes' = dfs)
              /\ (last'.kind = "DELETE" /\ live_top)
                   => /\ last'.rc = "SQLITE_OK"
                      /\ \E i \in tops :
                           tagged_dataframes'
                             = [dfs EXCEPT ![i].is_deleted = TRUE]
              /\ (last'.kind = "INSERT" /\ ~live_top /\ reusable # {})
                   => /\ last'.rc = "SQLITE_OK"
                      /\ Len(tagged_dataframes') = Len(dfs)
                      /\ \E i \in reusable :
                           /\ fresh(tagged_dataframes'[i])
                           /\ \A j \in 1 .. Len(dfs) :
                                j # i => tagged_dataframes'[j] = dfs[j]
              /\ (last'.kind = "INSERT" /\ ~live_top /\ reusable = {})
                   => /\ last'.rc = "SQLITE_OK"
                      /\ Len(tagged_dataframes') = Len(dfs) + 1
                      /\ fresh(tagged_dataframes'[Len(dfs) + 1])
                      /\ SubSeq(tagged_dataframes', 1, Len(dfs)) = dfs]_vars

\* An INSERT has succeeded without adding an entry: the entry of its name
\* with the current savepoint_version is live and is not the last entry,
\* which has another name.
C38_Witness ==
  /\ last.op = "Update"
  /\ last.kind = "INSERT"
  /\ last.rc = "SQLITE_OK"
  /\ Len(tagged_dataframes) >= 2
  /\ tagged_dataframes[Len(tagged_dataframes)].name # last.name
  /\ \E i \in 1 .. Len(tagged_dataframes) :
       /\ tagged_dataframes[i].name = last.name
       /\ tagged_dataframes[i].savepoint_version = savepoint_version
       /\ ~tagged_dataframes[i].is_deleted
       /\ tagged_dataframes[i].df_variant = 2

\* The scan as SQLite runs it: xNext is called again as long as xEof answers
\* false.
SpecStorageScan == SpecStorage /\ WF_vars(CallNext)

\* C39: a scan terminates.  After Filter, calling Next while Eof is false
\* leads to Eof.
C39_ScanReachesEof ==
  (last.op = "Filter") ~> Eof(tagged_dataframes, idx)

\* ------------------------------------------------------------------------
\* ProtoVmIncrementalTracing (protovm_incremental_tracing.cc)
\*
\* A VM is referred to by its position in vms_; vms_[vm] is the VM's
\* incremental state, here the payload of the last patch it accepted.  The
\* two maps are functions to sequences; import_logs counts the errors
\* recorded per stat.  An importer m is the record of the four.
\* ------------------------------------------------------------------------

\* std::nullopt as a std::optional<TraceBlobView>.
NulloptPacket ==
  [has_value |-> FALSE, state |-> 0, trusted_packet_sequence_id |-> 0]

Importer ==
  [ producer_id_to_sequence_ids_ |-> producer_id_to_sequence_ids_,
    sequence_id_to_vms_ |-> sequence_id_to_vms_, vms_ |-> vms_,
    import_logs |-> import_logs ]

\* map[key], default-constructed (empty) if the key is absent.
AtOrEmpty(map, key) == IF key \in DOMAIN map THEN map[key] ELSE << >>

\* ProcessTraceProvenancePacket(blob): sequences is the list of the
\* (producer_id, id) of all sequences of all buffers of the packet.
RECURSIVE ProcessTraceProvenancePacket(_, _)
ProcessTraceProvenancePacket(m, sequences) ==
  IF sequences = << >> THEN m
  ELSE ProcessTraceProvenancePacket(
         [m EXCEPT !.producer_id_to_sequence_ids_ =
            Put(@, Head(sequences).producer_id,
                Append(AtOrEmpty(@, Head(sequences).producer_id),
                       Head(sequences).id))],
         Tail(sequences))

\* The inner loop of ProcessProtoVmsPacket: vm is pushed to the list of
\* each of the sequence ids.
RECURSIVE RegisterForSequences(_, _, _)
RegisterForSequences(map, sequence_ids, vm) ==
  IF sequence_ids = << >> THEN map
  ELSE RegisterForSequences(
         Put(map, Head(sequence_ids),
             Append(AtOrEmpty(map, Head(sequence_ids)), vm)),
         Tail(sequence_ids), vm)

\* The loop of ProcessProtoVmsPacket over the producer ids of one instance.
RECURSIVE RegisterForProducers(_, _, _)
RegisterForProducers(m, producer_ids, vm) ==
  IF producer_ids = << >> THEN m
  ELSE IF Head(producer_ids) \notin DOMAIN m.producer_id_to_sequence_ids_
    THEN RegisterForProducers(
           [m EXCEPT !.import_logs.protovm_registration_error = @ + 1],
           Tail(producer_ids), vm)
    ELSE RegisterForProducers(
           [m EXCEPT !.sequence_id_to_vms_ =
              RegisterForSequences(
                @, m.producer_id_to_sequence_ids_[Head(producer_ids)], vm)],
           Tail(producer_ids), vm)

\* ProcessProtoVmsPacket(blob, packet): instances is the list of the
\* instances of the packet, each with its state and its producer ids.
RECURSIVE ProcessProtoVmsPacket(_, _)
ProcessProtoVmsPacket(m, instances) ==
  IF instances = << >> THEN m
  ELSE LET m1 == [m EXCEPT !.vms_ = Append(@, Head(instances).state)]
       IN  ProcessProtoVmsPacket(
             RegisterForProducers(m1, Head(instances).producer_id,
                                  Len(m1.vms_)),
             Tail(instances))

\* The loop of TryProcessPatch that goes on with the later VMs after a VM
\* accepted the patch.
RECURSIVE ApplyToVms_NoStop(_, _, _, _, _, _, _)
ApplyToVms_NoStop(m, vms, i, patch, answers, invoked, ret) ==
  IF i > Len(vms) THEN [m |-> m, invoked |-> invoked, ret |-> ret]
  ELSE IF answers[i] = "ok"
    THEN ApplyToVms_NoStop(
           [m EXCEPT !.vms_[vms[i]] = patch.payload], vms, i + 1, patch,
           answers, Append(invoked, vms[i]),
           [has_value |-> TRUE, state |-> patch.payload,
            trusted_packet_sequence_id |-> patch.trusted_packet_sequence_id])
  ELSE IF answers[i] = "abort"
    THEN ApplyToVms_NoStop(
           [m EXCEPT !.import_logs.protovm_abort = @ + 1], vms, i + 1,
           patch, answers, Append(invoked, vms[i]), ret)
    ELSE ApplyToVms_NoStop(m, vms, i + 1, patch, answers,
                           Append(invoked, vms[i]), ret)

\* The loop of TryProcessPatch from the i-th VM of the list on.  answers[i]
\* is what ApplyPatch of the i-th VM answers: "ok", "abort" or "error"; a VM
\* that accepts takes the patch into its state, which
\* SerializeIncrementalState writes out with the ids of the patch.
RECURSIVE ApplyToVms(_, _, _, _, _, _, _)
ApplyToVms(m, vms, i, patch, answers, invoked, ret) ==
  IF i > Len(vms) THEN [m |-> m, invoked |-> invoked, ret |-> ret]
  ELSE IF answers[i] = "ok"
    THEN [m |-> [m EXCEPT !.vms_[vms[i]] = patch.payload],
          invoked |-> Append(invoked, vms[i]),
          ret |-> [has_value |-> TRUE, state |-> patch.payload,
                   trusted_packet_sequence_id |->
                     patch.trusted_packet_sequence_id]]
  ELSE IF answers[i] = "abort"
    THEN ApplyToVms(
           [m EXCEPT !.import_logs.protovm_abort = @ + 1], vms, i + 1,
           patch, answers, Append(invoked, vms[i]), ret)
    ELSE ApplyToVms(m, vms, i + 1, patch, answers,
                    Append(invoked, vms[i]), ret)

\* TryProcessPatch(patch, packet).
TryProcessPatch(m, patch, answers) ==
  IF ~patch.has_trusted_packet_sequence_id
    THEN [m |-> m, invoked |-> << >>, ret |-> NulloptPacket]
  ELSE IF patch.trusted_packet_sequence_id \notin DOMAIN m.sequence_id_to_vms_
    THEN [m |-> m, invoked |-> << >>, ret |-> NulloptPacket]
    ELSE ApplyToVms(m, m.sequence_id_to_vms_[patch.trusted_packet_sequence_id],
                    1, patch, answers, << >>, NulloptPacket)

\* An importer that has seen no packet.
InitImporter ==
  /\ AllocatorIdle
  /\ ToolsInit
  /\ last = [op |-> "none", patch |-> Nullopt, answers |-> << >>,
             invoked |-> << >>, ret |-> NulloptPacket]

ImporterBecomes(m) ==
  /\ producer_id_to_sequence_ids_' = m.producer_id_to_sequence_ids_
  /\ sequence_id_to_vms_' = m.sequence_id_to_vms_
  /\ vms_' = m.vms_
  /\ import_logs' = m.import_logs
  /\ UNCHANGED << allocVars, toolVars, status, tagged_dataframes,
                  savepoint_version, idx >>

\* A TraceProvenance packet arrives, announcing one or two sequences of the
\* producers 1 and 2.
CallProcessTraceProvenancePacket ==
  /\ status = "running"
  /\ \E n \in 1 .. 2 :
       \E sequences \in [1 .. n -> [producer_id : {1, 2}, id : {1, 2}]] :
         /\ Cardinality(DOMAIN producer_id_to_sequence_ids_) = 0
              \/ n = 1
         /\ n + Len(AtOrEmpty(producer_id_to_sequence_ids_, 1))
              + Len(AtOrEmpty(producer_id_to_sequence_ids_, 2)) <= MaxSequences
         /\ ImporterBecomes(ProcessTraceProvenancePacket(Importer, sequences))
  /\ last' = [op |-> "ProcessTraceProvenancePacket", patch |-> Nullopt,
              answers |-> << >>, invoked |-> << >>, ret |-> NulloptPacket]

\* A ProtoVms packet arrives with one instance, for one or two producers;
\* producer 3 is announced by no TraceProvenance packet.
CallProcessProtoVmsPacket ==
  /\ status = "running"
  /\ Len(vms_) < MaxVms
  /\ import_logs.protovm_registration_error < MaxLogs
  /\ \E producer_id \in {<<1>>, <<2>>, <<3>>, <<1, 2>>} :
       ImporterBecomes(
         ProcessProtoVmsPacket(
           Importer, << [state |-> 0, producer_id |-> producer_id] >>))
  /\ last' = [op |-> "ProcessProtoVmsPacket", patch |-> Nullopt,
              answers |-> << >>, invoked |-> << >>, ret |-> NulloptPacket]

\* A patch packet arrives; the VMs answer as they like.  The answers of the
\* VMs behind the first one that accepts are not asked for, so one choice
\* stands for them all.
CallTryProcessPatch ==
  /\ status = "running"
  /\ import_logs.protovm_abort < MaxLogs
  /\ \E patch \in [has_trusted_packet_sequence_id : BOOLEAN,
                   trusted_packet_sequence_id : {1, 2},
                   payload : {1, 2}] :
       /\ ~patch.has_trusted_packet_sequence_id
            => patch.trusted_packet_sequence_id = 1
       /\ \E answers \in
               [1 .. Len(AtOrEmpty(sequence_id_to_vms_,
                                   patch.trusted_packet_sequence_id))
                  -> {"ok", "abort", "error"}] :
            /\ \A i, j \in DOMAIN answers :
                 (i < j /\ answers[i] = "ok") => answers[j] = "ok"
            /\ \E t \in {TryProcessPatch(Importer, patch, answers)} :
              /\ ImporterBecomes(t.m)
              /\ last' = [op |-> "TryProcessPatch", patch |-> patch,
                          answers |-> answers, invoked |-> t.invoked,
                          ret |-> t.ret]

SpecImporter ==
  InitImporter
    /\ [][CallProcessTraceProvenancePacket \/ CallProcessProtoVmsPacket
            \/ CallTryProcessPatch]_vars

\* C40: TryProcessPatch applies the patch to the VMs registered for the
\* patch's trusted_packet_sequence_id in registration order, stops at the
\* first VM that answers OK and returns that VM's serialized state; it
\* returns nullopt without invoking a VM when the patch has no sequence id or
\* no VM is registered for it, returns nullopt when no VM accepts, and
\* records one protovm_abort error for each VM invoked that aborts.
\* Registration order is the order of the ProtoVms instances: a VM is put
\* behind the VMs registered before it.
C40_FirstAcceptingVmWins ==
  [][/\ last'.op = "TryProcessPatch"
          => LET patch == last'.patch
                 answers == last'.answers
                 registered ==
                   IF /\ patch.has_trusted_packet_sequence_id
                      /\ patch.trusted_packet_sequence_id
                           \in DOMAIN sequence_id_to_vms_
                     THEN sequence_id_to_vms_[patch.trusted_packet_sequence_id]
                     ELSE << >>
                 accepting == { i \in 1 .. Len(registered) : answers[i] = "ok" }
                 n == IF accepting = {} THEN Len(registered)
                      ELSE CHOOSE i \in accepting : \A j \in accepting : i <= j
                 aborts == { i \in 1 .. n : answers[i] = "abort" }
             IN  /\ last'.invoked = SubSeq(registered, 1, n)
                 /\ import_logs'
                      = [import_logs EXCEPT
                           !.protovm_abort = @ + Cardinality(aborts)]
                 /\ sequence_id_to_vms_' = sequence_id_to_vms_
                 /\ IF accepting = {}
                      THEN last'.ret = NulloptPacket
                      ELSE /\ last'.ret.has_value
                           /\ last'.ret.state = vms_'[registered[n]]
                           /\ last'.ret.state = patch.payload
                           /\ last'.ret.trusted_packet_sequence_id
                                = patch.trusted_packet_sequence_id
     /\ last'.op = "ProcessProtoVmsPacket"
          => /\ Len(vms_') = Len(vms_) + 1
             /\ \A s \in DOMAIN sequence_id_to_vms_' :
                  LET before == AtOrEmpty(sequence_id_to_vms_, s)
                      after == sequence_id_to_vms_'[s]
                  IN  /\ Len(after) >= Len(before)
                      /\ SubSeq(after, 1, Len(before)) = before
                      /\ \A i \in (Len(before) + 1) .. Len(after) :
                           after[i] = Len(vms_')]_vars

\* The first VM registered for the sequence aborted, the second one
\* accepted, and a further registered VM was not invoked.
C40_Witness ==
  /\ last.op = "TryProcessPatch"
  /\ last.ret.has_value
  /\ Len(last.invoked) = 2
  /\ last.invoked[1] # last.invoked[2]
  /\ last.answers[1] = "abort"
  /\ import_logs.protovm_abort = 1
  /\ Len(sequence_id_to_vms_[last.patch.trusted_packet_sequence_id]) >= 3

====
